---- MODULE Spec2Model ----
(***************************************************************************)
(* The canvas engine of juicebox-glen/moments: the item collection hook    *)
(* (src/hooks/useCanvasItems.ts), the component that bridges it to the     *)
(* page (src/components/CanvasWithItems.tsx), the page that owns the       *)
(* persisted list (src/unnamed/part_002) and the per-item pointer          *)
(* controller (src/components/DraggableItem.tsx).                          *)
(*                                                                         *)
(* React state is modelled as variables.  A handler is one action; it      *)
(* changes state and leaves a render pending.  RenderPass is one render    *)
(* of CanvasWithItems followed by its effects, in declaration order.       *)
(* React flushes the render and the effects of a discrete event before it  *)
(* dispatches the next event, so handlers are enabled only when no render  *)
(* is pending.                                                             *)
(***************************************************************************)
EXTENDS Integers, Sequences, FiniteSets, TLC

(***************************************************************************)
(* Bounds of the exploration.                                              *)
(***************************************************************************)
\* ids "1" .. StringOf(MaxId) are allocated; add is not explored beyond
MaxId == 3
\* zIndex values explored: -MaxBelow .. MaxZ
MaxZ == 3
MaxBelow == 1
\* wall-clock readings explored: 0 .. MaxNow
MaxNow == 1

(***************************************************************************)
(* Values.                                                                 *)
(***************************************************************************)
\* selectedId === null
Null == "null"

\* decimal numerals: String(n) and parseInt(s) || 0 on the ids in use
Digits == <<"1", "2", "3", "4", "5", "6", "7", "8", "9">>

StringOf(n) == Digits[n]

ParseInt(s) ==
    IF \E n \in 1..Len(Digits) : Digits[n] = s
    THEN CHOOSE n \in 1..Len(Digits) : Digits[n] = s
    ELSE 0

\* the ids a caller may pass: allocated now, earlier, or not yet
IdUniverse == {StringOf(n) : n \in 1..MaxId}

Types == {"note", "decoration"}

SetMax(S) == CHOOSE m \in S : \A k \in S : k <= m
SetMin(S) == CHOOSE m \in S : \A k \in S : m <= k
MathMax(a, b) == IF a >= b THEN a ELSE b

Range(s) == {s[i] : i \in 1..Len(s)}

\* Array.prototype.map / filter
Map(s, F(_)) == [i \in 1..Len(s) |-> F(s[i])]
Filter(s, T(_)) == SelectSeq(s, T)

\* Array.prototype.sort((a, b) => a.zIndex - b.zIndex): stable insertion
RECURSIVE InsertAsc(_, _)
InsertAsc(s, e) ==
    IF s = <<>> THEN <<e>>
    ELSE IF e.zIndex < Head(s).zIndex THEN <<e>> \o s
    ELSE <<Head(s)>> \o InsertAsc(Tail(s), e)

\* the list left in array order
SortAscOmitted(s) == s

RECURSIVE SortAsc(_)
SortAsc(s) ==
    IF s = <<>> THEN <<>>
    ELSE InsertAsc(SortAsc(SubSeq(s, 1, Len(s) - 1)), s[Len(s)])

\* Array.prototype.sort((a, b) => b.zIndex - a.zIndex)
RECURSIVE InsertDesc(_, _)
InsertDesc(s, e) ==
    IF s = <<>> THEN <<e>>
    ELSE IF e.zIndex > Head(s).zIndex THEN <<e>> \o s
    ELSE <<Head(s)>> \o InsertDesc(Tail(s), e)

RECURSIVE SortDesc(_)
SortDesc(s) ==
    IF s = <<>> THEN <<>>
    ELSE InsertDesc(SortDesc(SubSeq(s, 1, Len(s) - 1)), s[Len(s)])

(***************************************************************************)
(* State.                                                                  *)
(***************************************************************************)
VARIABLES
    items,                \* useCanvasItems: items state (array of CanvasItem)
    selectedId,           \* useCanvasItems: selectedId state
    isInternalUpdateRef,  \* useCanvasItems: isInternalUpdateRef.current
    initialItemsChanged,  \* previousInitialItemsRef.current !== initialItems
    previousItemsRef,     \* CanvasWithItems: previousItemsRef.current
    pageItems,            \* page: items state, passed down as initialItems
    loadPending,          \* page: loadItems() started on mount, not finished
    renderPending,        \* a state update is queued, render not yet run
    now,                  \* what new Date() returns
    lastOp,               \* history: the event being handled (its handler,
                          \* its id argument, the branch the handler took)
                          \* until the renders it causes have run
    emitted,              \* history: lists passed to onItemsChange by the
                          \* last render pass
    canvasTransform,      \* CanvasWithItems: canvasTransform state
    transformRef,         \* CanvasWithItems: transformRef.current
    pendingTransformRef,  \* CanvasWithItems: pendingTransformRef.current
    rafRef,               \* CanvasWithItems: rafRef.current !== null
    frameCallbacks,       \* browser: callbacks requestAnimationFrame has
                          \* registered and not yet run
    controllers,          \* DraggableItem, by item id: isDragging,
                          \* isRotating, dragState, rotateState
    pointer,              \* history: the mouse button, and for the press
                          \* in progress its down-point, the geometry at the
                          \* press, whether a move went past the threshold
                          \* (along an axis: past, in a straight line: far)
                          \* and whether the mouse left the pressed element
    allocated,            \* history: the ids addItem has returned since the
                          \* canvas was mounted
    images,               \* image-storage: the item ids of this chapter
                          \* that have a blob in the 'images' store
    requests,             \* image-storage: put and delete requests made on
                          \* the 'images' store and not yet executed
    pagePreviousItemsRef, \* page: previousItemsRef.current of the cleanup
                          \* effect
    persistence,          \* page: isInitialLoadRef, the timer that resets
                          \* it, saveTimeoutRef with the list its timer will
                          \* write, the list written to localStorage, and
                          \* the items the save effect last ran with
    foundation,           \* CanvasFoundation: its refs and pending timers
    wrapper,              \* TransformWrapper: the scale of its state and
                          \* of the target of a running animation
    viewportStorage       \* localStorage: the canvas-scale entry

vars == <<items, selectedId, isInternalUpdateRef, initialItemsChanged,
          previousItemsRef, pageItems, loadPending, renderPending, now,
          lastOp, emitted, canvasTransform, transformRef,
          pendingTransformRef, rafRef, frameCallbacks, controllers, pointer,
          allocated,
          images, requests, pagePreviousItemsRef, persistence,
          foundation, wrapper, viewportStorage>>

hookVars == <<items, selectedId, isInternalUpdateRef>>
bridgeVars == <<initialItemsChanged, previousItemsRef, pageItems, loadPending>>
foundationVars == <<foundation, wrapper, viewportStorage>>
cameraVars == <<canvasTransform, transformRef, pendingTransformRef, rafRef,
                frameCallbacks, foundationVars>>
viewVars == <<cameraVars, controllers, pointer>>
assetVars == <<images, requests, pagePreviousItemsRef, persistence>>

NoOp == [op |-> "none", id |-> Null, branch |-> "none"]

\* scale is held in eighths: ScaleUnit stands for the scale 1.0
ScaleUnit == 8

\* TransformWrapper minScale={0.5}
MinScale == ScaleUnit \div 2

Transform(scale, positionX, positionY) ==
    [scale |-> scale, positionX |-> positionX, positionY |-> positionY]

\* useRef / useState({ scale: 1, positionX: -4500, positionY: -4500 })
DefaultTransform == Transform(ScaleUnit, -4500, -4500)

\* a ref or state that holds an object or null: <<>> is null, <<v>> is v
NoValue == <<>>
Value(v) == <<v>>

\* useState of a DraggableItem that has just been mounted
FreshController ==
    [isDragging |-> FALSE, isRotating |-> FALSE,
     dragState |-> NoValue, rotateState |-> NoValue]

NoPress == [down |-> FALSE, past |-> FALSE, far |-> FALSE, left |-> FALSE,
            startX |-> 0, startY |-> 0, geometry |-> <<>>]

\* The canvas is mounted once the page stops showing "Loading...": with the
\* empty list while loadItems is outstanding or found nothing (pending), or
\* with the stored list when loadItems finished first.
MountedCanvas(initialItems, pending) ==
    /\ items = initialItems
    /\ selectedId = Null
    /\ isInternalUpdateRef = FALSE
    /\ initialItemsChanged = FALSE
    /\ previousItemsRef = initialItems
    /\ pageItems = initialItems
    /\ loadPending = pending
    /\ renderPending = FALSE
    /\ now = 0
    /\ allocated = {}
    /\ images = {i.id : i \in {j \in Range(initialItems) : j.type = "photo"}}
    /\ requests = <<>>
    /\ pagePreviousItemsRef = initialItems
    /\ persistence = [isInitialLoadRef |-> TRUE,
                      initialLoadTimeout |-> ~pending,
                      saveTimeoutRef |-> NoValue,
                      written |-> NoValue,
                      effectItems |-> initialItems]
    /\ lastOp = NoOp
    /\ emitted = <<>>
    /\ canvasTransform = DefaultTransform
    /\ transformRef = DefaultTransform
    /\ pendingTransformRef = NoValue
    /\ rafRef = FALSE
    /\ frameCallbacks = 0
    /\ controllers = [id \in IdUniverse |-> FreshController]
    /\ pointer = NoPress

\* CanvasFoundation as it is mounted: its scale ref at the default, the
\* TransformWrapper at initialScale, no timer pending.  Of the viewport the
\* scale is followed; the position never enters the computation of a scale.
\* The hydration effect has yet to run, or (hydrated) has run and found
\* nothing stored.
MountedFoundation(stored, hydrated) ==
    /\ foundation = [currentScaleRef |-> ScaleUnit,
                     isZoomingRef |-> FALSE,
                     isPanningRef |-> FALSE,
                     hasHydratedRef |-> hydrated,
                     saveTimeoutRef |-> FALSE,
                     panningEndTimeoutRef |-> FALSE,
                     zoomTimeouts |-> <<>>]
    /\ wrapper = [scale |-> ScaleUnit, animation |-> NoValue]
    /\ viewportStorage = stored

Mounted(initialItems, pending) ==
    /\ MountedCanvas(initialItems, pending)
    /\ MountedFoundation(NoValue, TRUE)

(***************************************************************************)
(* useCanvasItems: id and zIndex allocation.                               *)
(***************************************************************************)
\* an allocation from the number of objects instead of the largest id
getNextIdFromLength(its) == StringOf(Len(its) + 1)

getNextId(its) ==
    IF Len(its) = 0 THEN "1"
    ELSE StringOf(SetMax({ParseInt(i.id) : i \in Range(its)}) + 1)

getNextZIndexFromLength(its) == Len(its) + 1

getNextZIndex(its) ==
    IF Len(its) = 0 THEN 1
    ELSE SetMax({i.zIndex : i \in Range(its)}) + 1

IsDecoration(i) == i.type = "decoration"
NotDecoration(i) == i.type # "decoration"

getDecorationZIndexBottom(its) == 0

getDecorationZIndex(its) ==
    LET nonDecorationItems == Filter(its, NotDecoration)
    IN  IF Len(nonDecorationItems) = 0 THEN 0
        ELSE MathMax(0, SetMin({i.zIndex : i \in Range(nonDecorationItems)}) - 1)

\* the event bookkeeping every handler shares
Noted(op, id, branch) ==
    /\ lastOp' = [op |-> op, id |-> id, branch |-> branch]
    /\ emitted' = <<>>

\* a handler called from the dock, the keyboard or the page: camera and
\* pointer are not involved
Handled(op, id, branch) ==
    /\ Noted(op, id, branch)
    /\ UNCHANGED viewVars

\* a handler whose state updates React bails out of: no render follows
Bailed == UNCHANGED <<lastOp, emitted, viewVars>>

Idle == renderPending = FALSE

(***************************************************************************)
(* Inputs explored.                                                        *)
(***************************************************************************)
\* canvas positions a payload or a drag may name: an origin, a box that
\* touches the origin box along one edge, and a box far away on the y axis
PosMenu == {<<0, 0>>, <<200, 0>>, <<0, 1000>>}

\* SIZE_PRESETS S and M (src/lib/size-presets.ts)
SizeMenu == {<<200, 200>>, <<300, 300>>}

\* rotations a rotate may name: degrees, not normalised
RotationMenu == {-90, 450}

ContentMenu == {"a", "b"}

\* what handleResize may be called with: the presets, and a width that is
\* not positive (the handler takes any number)
ResizeTargets == SizeMenu \cup {<<0, 200>>}

Payload(type, pos) ==
    [type |-> type, x |-> pos[1], y |-> pos[2], width |-> 200, height |-> 200,
     rotation |-> 0, content |-> "a"]

AddPayloads == {Payload(t, p) : t \in Types, p \in PosMenu}

HasId(its, id) == \E i \in Range(its) : i.id = id

\* whether the id a handler was given names an item
HitOrMiss(its, id) == IF HasId(its, id) THEN "hit" ELSE "missing"

\* Array.prototype.find
Find(its, id) == its[CHOOSE k \in 1..Len(its) :
                        /\ its[k].id = id
                        /\ \A j \in 1..(k - 1) : its[j].id # id]

\* what a functional setItems updater returns: prev itself (React bails
\* out, no render) or a new array
Kept(prev, branch) == [bail |-> TRUE, items |-> prev, branch |-> branch]
Replaced(its, branch) == [bail |-> FALSE, items |-> its, branch |-> branch]

\* the explored zIndex range
ZInRange(its) == \A i \in Range(its) : -MaxBelow <= i.zIndex /\ i.zIndex <= MaxZ

(***************************************************************************)
(* useCanvasItems: handlers.                                               *)
(***************************************************************************)
\* handleDrag: the setItems updater
DragUpdaterUnstamped(prev, id, x, y, t) ==
    Map(prev, LAMBDA item :
            IF item.id = id THEN [item EXCEPT !.x = x, !.y = y] ELSE item)

DragUpdater(prev, id, x, y, t) ==
    Map(prev, LAMBDA item :
            IF item.id = id
            THEN [item EXCEPT !.x = x, !.y = y, !.updatedAt = t]
            ELSE item)

handleDrag(id, x, y) ==
    /\ Idle
    /\ isInternalUpdateRef' = TRUE
    /\ items' = DragUpdater(items, id, x, y, now)
    /\ renderPending' = TRUE
    /\ Handled("drag", id, HitOrMiss(items, id))
    /\ UNCHANGED <<selectedId, bridgeVars, now, allocated, assetVars>>

RotateUpdaterNormalized(prev, id, rotation, t) ==
    Map(prev, LAMBDA item :
            IF item.id = id
            THEN [item EXCEPT !.rotation = rotation % 360, !.updatedAt = t]
            ELSE item)

\* handleRotate: the setItems updater
RotateUpdater(prev, id, rotation, t) ==
    Map(prev, LAMBDA item :
            IF item.id = id
            THEN [item EXCEPT !.rotation = rotation, !.updatedAt = t]
            ELSE item)

handleRotate(id, rotation) ==
    /\ Idle
    /\ isInternalUpdateRef' = TRUE
    /\ items' = RotateUpdater(items, id, rotation, now)
    /\ renderPending' = TRUE
    /\ Handled("rotate", id, HitOrMiss(items, id))
    /\ UNCHANGED <<selectedId, bridgeVars, now, allocated, assetVars>>

handleSelectBringsToFront(id) ==
    /\ Idle
    /\ selectedId' = id
    /\ items' = Map(items, LAMBDA item :
                    IF item.id = id
                    THEN [item EXCEPT !.zIndex = getNextZIndex(items)]
                    ELSE item)
    /\ renderPending' = TRUE
    /\ Handled("select", id, HitOrMiss(items, id))
    /\ UNCHANGED <<isInternalUpdateRef, bridgeVars, now, allocated, assetVars>>

handleSelect(id) ==
    /\ Idle
    /\ selectedId' = id
    /\ renderPending' = (selectedId # id)
    /\ IF selectedId = id THEN Bailed
       ELSE Handled("select", id, HitOrMiss(items, id))
    /\ UNCHANGED <<items, isInternalUpdateRef, bridgeVars, now, allocated, assetVars>>

handleDeleteKeepsSelection(id) ==
    /\ Idle
    /\ isInternalUpdateRef' = TRUE
    /\ items' = Filter(items, LAMBDA item : item.id # id)
    /\ renderPending' = TRUE
    /\ Handled("delete", id, HitOrMiss(items, id))
    /\ UNCHANGED <<selectedId, bridgeVars, now, allocated, assetVars>>

handleDelete(id) ==
    /\ Idle
    /\ isInternalUpdateRef' = TRUE
    /\ items' = Filter(items, LAMBDA item : item.id # id)
    /\ selectedId' = IF selectedId = id THEN Null ELSE selectedId
    /\ renderPending' = TRUE
    /\ Handled("delete", id, HitOrMiss(items, id))
    /\ UNCHANGED <<bridgeVars, now, allocated, assetVars>>

\* window keydown listener of CanvasWithItems: Delete or Backspace
handleKeyDown ==
    IF selectedId # Null THEN handleDelete(selectedId)
    ELSE Idle /\ UNCHANGED vars

\* the click reached the canvas background (e.target === e.currentTarget)
handleCanvasClick ==
    /\ Idle
    /\ selectedId' = Null
    /\ renderPending' = (selectedId # Null)
    /\ IF selectedId = Null THEN Bailed
       ELSE Handled("canvasClick", Null, "background")
    /\ UNCHANGED <<items, isInternalUpdateRef, bridgeVars, now, allocated, assetVars>>

NewItem(its, payload, t) ==
    [id |-> getNextId(its),
     type |-> payload.type,
     x |-> payload.x, y |-> payload.y,
     width |-> payload.width, height |-> payload.height,
     rotation |-> payload.rotation,
     content |-> payload.content,
     zIndex |-> IF payload.type = "decoration"
                THEN getDecorationZIndex(its)
                ELSE getNextZIndex(its),
     createdAt |-> t,
     updatedAt |-> t]

\* the call addItemRef.current(payload) and the id it returns
addItemRef(payload) ==
    /\ Idle
    /\ \A i \in Range(items) : ParseInt(i.id) < MaxId
    /\ LET newItem == NewItem(items, payload, now)
       IN  /\ items' = Append(items, newItem)
           /\ selectedId' = newItem.id
           /\ Handled("add", newItem.id, payload.type)
    /\ ZInRange(items')
    /\ isInternalUpdateRef' = TRUE
    /\ renderPending' = TRUE
    /\ UNCHANGED <<bridgeVars, now>>
    /\ allocated' = allocated \cup {NewItem(items, payload, now).id}

\* an add that stores no image: a note or a decoration
addItem(payload) == addItemRef(payload) /\ UNCHANGED assetVars

updateItem(id, content) ==
    /\ Idle
    /\ isInternalUpdateRef' = TRUE
    /\ items' = Map(items, LAMBDA item :
                    IF item.id = id
                    THEN [item EXCEPT !.content = content, !.updatedAt = now]
                    ELSE item)
    /\ renderPending' = TRUE
    /\ Handled("update", id, HitOrMiss(items, id))
    /\ UNCHANGED <<selectedId, bridgeVars, now, allocated, assetVars>>

\* A number of the program is a binary floating-point number: a sum or a
\* difference is rounded to the nearest number with Precision significant
\* bits, the even one of two that are as near.  Precision stands for the 53
\* bits of a double; the numbers the other specifications reach are below
\* 2^Precision and are never rounded.
Precision == 15

RECURSIVE Pow2(_)
Pow2(n) == IF n = 0 THEN 1 ELSE 2 * Pow2(n - 1)

\* the spacing of the floating-point numbers around a magnitude
RECURSIVE Ulp(_)
Ulp(a) == IF a < Pow2(Precision) THEN 1 ELSE 2 * Ulp(a \div 2)

RoundMagnitude(a) ==
    LET g == Ulp(a)
        q == a \div g
        r == a % g
    IN  IF 2 * r < g THEN q * g
        ELSE IF 2 * r > g THEN (q + 1) * g
        ELSE IF q % 2 = 0 THEN q * g
        ELSE (q + 1) * g

Fl(v) == IF v >= 0 THEN RoundMagnitude(v) ELSE -RoundMagnitude(-v)

\* width and height are even in SizeMenu, so the halves are exact
ResizeItemKeepsCorner(item, width, height, t) ==
    [item EXCEPT !.width = width, !.height = height, !.updatedAt = t]

ResizeItem(item, width, height, t) ==
    LET centerX == Fl(item.x + item.width \div 2)
        centerY == Fl(item.y + item.height \div 2)
        newX == Fl(centerX - width \div 2)
        newY == Fl(centerY - height \div 2)
    IN  [item EXCEPT !.x = newX, !.y = newY, !.width = width,
                     !.height = height, !.updatedAt = t]

\* a resize that keeps the top left corner where it is
handleResizeFromCorner(id, width, height) ==
    /\ Idle
    /\ isInternalUpdateRef' = TRUE
    /\ items' = Map(items, LAMBDA item :
                    IF item.id = id THEN ResizeItemKeepsCorner(item, width, height, now)
                    ELSE item)
    /\ renderPending' = TRUE
    /\ Handled("resize", id, HitOrMiss(items, id))
    /\ UNCHANGED <<selectedId, bridgeVars, now, allocated, assetVars>>

handleResize(id, width, height) ==
    /\ Idle
    /\ isInternalUpdateRef' = TRUE
    /\ items' = Map(items, LAMBDA item :
                    IF item.id = id THEN ResizeItem(item, width, height, now)
                    ELSE item)
    /\ renderPending' = TRUE
    /\ Handled("resize", id, HitOrMiss(items, id))
    /\ UNCHANGED <<selectedId, bridgeVars, now, allocated, assetVars>>

(***************************************************************************)
(* useCanvasItems: overlap-aware layering.                                 *)
(***************************************************************************)
itemsOverlap(item1, item2) ==
    LET item1Right == item1.x + item1.width
        item1Bottom == item1.y + item1.height
        item2Right == item2.x + item2.width
        item2Bottom == item2.y + item2.height
    IN  ~(\/ item1Right < item2.x
          \/ item1.x > item2Right
          \/ item1Bottom < item2.y
          \/ item1.y > item2Bottom)

SetZIndexMakingRoom(prev, id, z, t) ==
    Map(prev, LAMBDA i :
        IF i.id = id THEN [i EXCEPT !.zIndex = z, !.updatedAt = t]
        ELSE IF i.zIndex >= z THEN [i EXCEPT !.zIndex = @ + 1]
        ELSE i)

SetZIndex(prev, id, z, t) ==
    Map(prev, LAMBDA i :
        IF i.id = id THEN [i EXCEPT !.zIndex = z, !.updatedAt = t] ELSE i)

MoveUpUpdaterPastEdge(prev, id, t) ==
    IF ~HasId(prev, id) THEN Kept(prev, "missing")
    ELSE Replaced(SetZIndex(prev, id, SetMax({i.zIndex : i \in Range(prev)}) + 1, t),
                  "toEdge")

\* the updater handleMoveUp passes to setItems
MoveUpUpdater(prev, id, t) ==
    IF ~HasId(prev, id) THEN Kept(prev, "missing")
    ELSE
    LET item == Find(prev, id) IN
    IF item.type = "decoration"
    THEN
        LET overlappingDecorations ==
                SortAsc(Filter(
                    Filter(prev, LAMBDA i : /\ i.type = "decoration"
                                            /\ i.id # id
                                            /\ itemsOverlap(item, i)),
                    LAMBDA i : i.zIndex > item.zIndex))
        IN  IF Len(overlappingDecorations) = 0
            THEN
                LET allDecorations == SortAsc(Filter(prev, IsDecoration))
                    maxZIndex ==
                        IF Len(allDecorations) > 0
                        THEN SetMax({i.zIndex : i \in Range(allDecorations)})
                        ELSE item.zIndex
                IN  IF item.zIndex >= maxZIndex
                    THEN Kept(prev, "edge")
                    ELSE Replaced(SetZIndex(prev, id, maxZIndex + 1, t), "toEdge")
            ELSE
                LET lowestOverlapping == overlappingDecorations[1]
                IN  Replaced(SetZIndex(prev, id, lowestOverlapping.zIndex + 1, t),
                             "leapfrog")
    ELSE
        LET overlappingItems ==
                SortAsc(Filter(
                    Filter(prev, LAMBDA i : /\ i.type # "decoration"
                                            /\ i.id # id
                                            /\ itemsOverlap(item, i)),
                    LAMBDA i : i.zIndex > item.zIndex))
        IN  IF Len(overlappingItems) = 0
            THEN
                LET allNonDecorations == Filter(prev, NotDecoration)
                    maxZIndex ==
                        IF Len(allNonDecorations) > 0
                        THEN SetMax({i.zIndex : i \in Range(allNonDecorations)})
                        ELSE item.zIndex
                IN  IF item.zIndex >= maxZIndex
                    THEN Kept(prev, "edge")
                    ELSE Replaced(SetZIndex(prev, id, maxZIndex + 1, t), "toEdge")
            ELSE
                LET lowestOverlapping == overlappingItems[1]
                IN  Replaced(SetZIndex(prev, id, lowestOverlapping.zIndex + 1, t),
                             "leapfrog")

\* a bring-forward that always goes past every object
handleMoveUpPastAll(id) ==
    /\ Idle
    /\ LET r == MoveUpUpdaterPastEdge(items, id, now)
       IN  /\ items' = r.items
           /\ renderPending' = ~r.bail
           /\ IF r.bail THEN Bailed ELSE Handled("moveUp", id, r.branch)
    /\ ZInRange(items')
    /\ UNCHANGED <<selectedId, isInternalUpdateRef, bridgeVars, now, allocated, assetVars>>

\* handleMoveUp does not touch isInternalUpdateRef
handleMoveUp(id) ==
    /\ Idle
    /\ LET r == MoveUpUpdater(items, id, now)
       IN  /\ items' = r.items
           /\ renderPending' = ~r.bail
           /\ IF r.bail THEN Bailed ELSE Handled("moveUp", id, r.branch)
    /\ ZInRange(items')
    /\ UNCHANGED <<selectedId, isInternalUpdateRef, bridgeVars, now, allocated, assetVars>>

\* the updater handleMoveDown passes to setItems
MoveDownUpdater(prev, id, t) ==
    IF ~HasId(prev, id) THEN Kept(prev, "missing")
    ELSE
    LET item == Find(prev, id) IN
    IF item.type = "decoration"
    THEN
        LET overlappingDecorations ==
                SortDesc(Filter(
                    Filter(prev, LAMBDA i : /\ i.type = "decoration"
                                            /\ i.id # id
                                            /\ itemsOverlap(item, i)),
                    LAMBDA i : i.zIndex < item.zIndex))
        IN  IF Len(overlappingDecorations) = 0
            THEN
                LET allDecorations == SortAsc(Filter(prev, IsDecoration))
                    minZIndex ==
                        IF Len(allDecorations) > 0
                        THEN SetMin({i.zIndex : i \in Range(allDecorations)})
                        ELSE item.zIndex
                IN  IF item.zIndex <= minZIndex
                    THEN Kept(prev, "edge")
                    ELSE Replaced(SetZIndex(prev, id, MathMax(0, minZIndex - 1), t),
                                  "toEdge")
            ELSE
                LET highestOverlapping == overlappingDecorations[1]
                IN  Replaced(SetZIndex(prev, id,
                        MathMax(0, highestOverlapping.zIndex - 1), t), "leapfrog")
    ELSE
        LET overlappingItems ==
                SortDesc(Filter(
                    Filter(prev, LAMBDA i : /\ i.type # "decoration"
                                            /\ i.id # id
                                            /\ itemsOverlap(item, i)),
                    LAMBDA i : i.zIndex < item.zIndex))
        IN  IF Len(overlappingItems) = 0
            THEN
                LET allNonDecorations == Filter(prev, NotDecoration)
                    minZIndex ==
                        IF Len(allNonDecorations) > 0
                        THEN SetMin({i.zIndex : i \in Range(allNonDecorations)})
                        ELSE item.zIndex
                IN  IF item.zIndex <= minZIndex
                    THEN Kept(prev, "edge")
                    ELSE
                        LET decorations == Filter(prev, IsDecoration)
                            decorationMaxZIndex ==
                                IF Len(decorations) > 0
                                THEN SetMax({i.zIndex : i \in Range(decorations)})
                                ELSE 0
                            targetZIndex ==
                                MathMax(decorationMaxZIndex + 1, minZIndex - 1)
                        IN  Replaced(SetZIndex(prev, id, targetZIndex, t), "toEdge")
            ELSE
                LET highestOverlapping == overlappingItems[1]
                IN  Replaced(SetZIndex(prev, id, highestOverlapping.zIndex - 1, t),
                             "leapfrog")

handleMoveDown(id) ==
    /\ Idle
    /\ isInternalUpdateRef' = TRUE
    /\ LET r == MoveDownUpdater(items, id, now)
       IN  /\ items' = r.items
           /\ renderPending' = ~r.bail
           /\ IF r.bail THEN Bailed ELSE Handled("moveDown", id, r.branch)
    /\ ZInRange(items')
    /\ UNCHANGED <<selectedId, bridgeVars, now, allocated, assetVars>>

(***************************************************************************)
(* The page (external collaborator): it owns the persisted list, passes    *)
(* it down as initialItems and takes onItemsChange as its setItems.        *)
(***************************************************************************)
StoredItem(id, type, pos, z) ==
    [id |-> id, type |-> type, x |-> pos[1], y |-> pos[2],
     width |-> 200, height |-> 200, rotation |-> 0, content |-> "a",
     zIndex |-> z, createdAt |-> 0, updatedAt |-> 0]

\* lists an earlier session of the engine can have left in localStorage
StoredSnapshots ==
    { <<StoredItem("1", "note", <<0, 0>>, 1)>>,
      <<StoredItem("1", "decoration", <<0, 0>>, 0),
        StoredItem("2", "note", <<200, 0>>, 1)>> }

\* setItemsWithLogging(next): a new array becomes the page's state
PageSetItems(next) ==
    /\ pageItems' = next
    /\ initialItemsChanged' = TRUE
    /\ renderPending' = TRUE

\* loadItems(): a non-empty saved list is set
loadItemsFound(saved) ==
    /\ Idle
    /\ loadPending
    /\ loadPending' = FALSE
    /\ PageSetItems(saved)
    /\ Handled("load", Null, "set")
    /\ UNCHANGED <<hookVars, previousItemsRef, now, allocated, assetVars>>

\* loadItems(): nothing saved, or an empty list: the state is not set
loadItemsNone ==
    /\ Idle
    /\ loadPending
    /\ loadPending' = FALSE
    /\ Bailed
    /\ UNCHANGED <<hookVars, initialItemsChanged, previousItemsRef, pageItems,
                   renderPending, now, allocated, assetVars>>

\* loadItems(): the read throws, the catch sets an empty list
loadItemsFailed ==
    /\ Idle
    /\ loadPending
    /\ loadPending' = FALSE
    /\ PageSetItems(<<>>)
    /\ Handled("load", Null, "set")
    /\ UNCHANGED <<hookVars, previousItemsRef, now, allocated, assetVars>>

\* handleTextItemDoubleClick(id) on a rendered item, then handleEditText
handleEditText(id, content) ==
    /\ Idle
    /\ HasId(items, id)
    /\ \E i \in Range(pageItems) : i.id = id /\ i.type = "note"
    /\ PageSetItems(Map(pageItems, LAMBDA item :
            IF item.id = id /\ item.type = "note"
            THEN [item EXCEPT !.content = content, !.updatedAt = now]
            ELSE item))
    /\ Handled("editText", id, "set")
    /\ UNCHANGED <<hookVars, previousItemsRef, loadPending, now, allocated, assetVars>>

(***************************************************************************)
(* One render of CanvasWithItems and the effects it runs.                  *)
(***************************************************************************)
\* new Map(list.map(item => [item.id, item])).get(id): the last entry wins
MapHas(list, id) == HasId(list, id)
MapGet(list, id) == list[CHOOSE k \in 1..Len(list) :
                            /\ list[k].id = id
                            /\ \A j \in (k + 1)..Len(list) : list[j].id # id]

FieldsDiffer(a, b) ==
    \/ a.x # b.x
    \/ a.y # b.y
    \/ a.rotation # b.rotation
    \/ a.width # b.width
    \/ a.height # b.height
    \/ a.zIndex # b.zIndex

\* notify effect: itemsChanged
ItemsChanged(its, initialItems) ==
    \/ Len(its) # Len(initialItems)
    \/ \E item \in Range(its) :
          \/ ~MapHas(initialItems, item.id)
          \/ FieldsDiffer(item, MapGet(initialItems, item.id))

\* a comparison that never recognises the previous notification
SameAsPreviousNever(previous, its) == FALSE

\* notify effect: sameAsPrevious
SameAsPrevious(previous, its) ==
    /\ Len(previous) = Len(its)
    /\ \A item \in Range(its) :
          /\ MapHas(previous, item.id)
          /\ ~FieldsDiffer(MapGet(previous, item.id), item)

\* list.map(item => item.id).sort(): the default sort orders the numerals
\* in use as their numbers
RECURSIVE InsertId(_, _)
InsertId(s, e) ==
    IF s = <<>> THEN <<e>>
    ELSE IF ParseInt(e) < ParseInt(Head(s)) THEN <<e>> \o s
    ELSE <<Head(s)>> \o InsertId(Tail(s), e)

RECURSIVE SortedIds(_)
SortedIds(list) ==
    IF list = <<>> THEN <<>>
    ELSE InsertId(SortedIds(SubSeq(list, 1, Len(list) - 1)), list[Len(list)].id)

\* sync effect of useCanvasItems (initialItems is this render's pageItems)
SyncGuard == initialItemsChanged /\ ~isInternalUpdateRef
SyncReplaces == SyncGuard /\ SortedIds(items) # SortedIds(pageItems)

\* notify effect of CanvasWithItems (items is this render's items)
NotifyEmits ==
    /\ ItemsChanged(items, pageItems)
    /\ ~SameAsPrevious(previousItemsRef, items)

(***************************************************************************)
(* CanvasWithItems: camera and viewport culling.                           *)
(***************************************************************************)
\* window.innerWidth and window.innerHeight
InnerWidth == 1000
InnerHeight == 800

DivScaleIgnored(v, scale) == v

\* v / scale and v * scale
DivScale(v, scale) == (v * ScaleUnit) \div scale
MulScale(v, scale) == (v * scale) \div ScaleUnit

viewportBounds(t) ==
    [left |-> DivScale(-t.positionX, t.scale),
     right |-> DivScale(InnerWidth - t.positionX, t.scale),
     top |-> DivScale(-t.positionY, t.scale),
     bottom |-> DivScale(InnerHeight - t.positionY, t.scale)]

padding == 200

paddedBoundsUnpadded(t) == viewportBounds(t)

paddedBounds(t) ==
    LET b == viewportBounds(t)
    IN  [left |-> b.left - padding, right |-> b.right + padding,
         top |-> b.top - padding, bottom |-> b.bottom + padding]

\* the item's box lies beyond an edge of the padded viewport
OutsideBounds(item, b) ==
    \/ item.x + item.width < b.left
    \/ item.x > b.right
    \/ item.y + item.height < b.top
    \/ item.y > b.bottom

\* the culling filter without its first line
visibleItemsWithinBounds(its, t, sel) ==
    SelectSeq(its, LAMBDA item : ~OutsideBounds(item, paddedBounds(t)))

visibleItems(its, t, sel) ==
    SelectSeq(its, LAMBDA item :
        \/ item.id = sel
        \/ ~OutsideBounds(item, paddedBounds(t)))

\* ids of the DraggableItem components the current render keeps mounted
MountedIds == {i.id : i \in Range(visibleItems(items, canvasTransform, selectedId))}

\* a render unmounts the DraggableItem of every item it does not list
Remount(ctl) ==
    [id \in IdUniverse |-> IF id \in MountedIds THEN ctl[id] ELSE FreshController]

\* the transform the foundation has applied to the canvas element and
\* passes to the items as scale: the last one it reported
Live == IF pendingTransformRef # NoValue THEN pendingTransformRef[1] ELSE transformRef

\* onTransformed -> handleTransformChange(scale, positionX, positionY)
storePending(t) ==
    /\ pendingTransformRef' = Value(t)
    /\ rafRef' = TRUE
    /\ frameCallbacks' = IF rafRef THEN frameCallbacks ELSE frameCallbacks + 1

handleTransformChange(t) ==
    /\ Idle
    /\ t # Live
    /\ storePending(t)
    /\ UNCHANGED <<hookVars, bridgeVars, renderPending, now, allocated, assetVars, lastOp, emitted,
                   canvasTransform, transformRef, controllers, pointer,
                   foundationVars>>

\* a frame callback that applies nothing it was given
updateTransformDroppingPending ==
    /\ Idle
    /\ frameCallbacks > 0
    /\ frameCallbacks' = frameCallbacks - 1
    /\ pendingTransformRef' = NoValue
    /\ rafRef' = FALSE
    /\ UNCHANGED <<hookVars, bridgeVars, now, allocated, assetVars, controllers, pointer,
                   transformRef, canvasTransform, renderPending, lastOp, emitted,
                   foundationVars>>

\* the animation frame: the browser runs a registered updateTransform
updateTransform ==
    /\ Idle
    /\ frameCallbacks > 0
    /\ frameCallbacks' = frameCallbacks - 1
    /\ IF pendingTransformRef # NoValue
       THEN /\ transformRef' = pendingTransformRef[1]
            /\ canvasTransform' = pendingTransformRef[1]
            /\ pendingTransformRef' = NoValue
            /\ renderPending' = TRUE
            /\ Noted("camera", Null, "frame")
       ELSE UNCHANGED <<transformRef, canvasTransform, pendingTransformRef,
                        renderPending, lastOp, emitted>>
    /\ rafRef' = FALSE
    /\ UNCHANGED <<hookVars, bridgeVars, now, allocated, assetVars, controllers, pointer,
                   foundationVars>>

(***************************************************************************)
(* One render of CanvasWithItems with the effects it runs.                 *)
(***************************************************************************)
RenderPass ==
    /\ renderPending
    /\ controllers' = Remount(controllers)
    /\ UNCHANGED <<cameraVars, pointer>>
    \* sync effect: setItems(initialItems) takes effect in the next render
    /\ items' = IF SyncReplaces THEN pageItems ELSE items
    /\ isInternalUpdateRef' = (isInternalUpdateRef \/ SyncReplaces)
    \* notify effect: onItemsChange(items) is the page's setItems
    /\ previousItemsRef' = IF NotifyEmits THEN items ELSE previousItemsRef
    /\ pageItems' = IF NotifyEmits THEN items ELSE pageItems
    /\ emitted' = IF NotifyEmits THEN <<items>> ELSE <<>>
    /\ initialItemsChanged' =
          IF NotifyEmits THEN TRUE
          ELSE IF SyncGuard THEN FALSE
          ELSE initialItemsChanged
    /\ renderPending' = (SyncReplaces \/ NotifyEmits)
    /\ lastOp' = IF SyncReplaces \/ NotifyEmits THEN lastOp ELSE NoOp
    /\ UNCHANGED <<selectedId, loadPending, now, allocated, assetVars>>

\* time passes
Tick ==
    /\ now < MaxNow
    /\ now' = now + 1
    /\ UNCHANGED <<allocated, assetVars>>
    /\ UNCHANGED <<hookVars, bridgeVars, renderPending, lastOp, emitted, viewVars>>

(***************************************************************************)
(* DraggableItem: the pointer controller of one item.                      *)
(***************************************************************************)
DRAG_THRESHOLD == 5
CornerRadius == 30
handleSize == 14

Abs(n) == IF n < 0 THEN -n ELSE n

\* itemRef.current.getBoundingClientRect() of an item whose rotated box
\* coincides with its unrotated box
BoundingClientRect(item, t) ==
    [left |-> MulScale(item.x, t.scale) + t.positionX,
     top |-> MulScale(item.y, t.scale) + t.positionY,
     width |-> MulScale(item.width, t.scale),
     height |-> MulScale(item.height, t.scale)]

Upright(item) == item.rotation % 90 = 0 /\ item.width = item.height

Corners(rect) ==
    { <<rect.left, rect.top>>, <<rect.left + rect.width, rect.top>>,
      <<rect.left, rect.top + rect.height>>,
      <<rect.left + rect.width, rect.top + rect.height>> }

InsideRect(rect, mouseX, mouseY) ==
    /\ rect.left <= mouseX /\ mouseX <= rect.left + rect.width
    /\ rect.top <= mouseY /\ mouseY <= rect.top + rect.height

\* distance < 30 / scale, compared in squares
checkCornerType(rect, mouseX, mouseY, scale) ==
    IF \E c \in Corners(rect) :
          ((mouseX - c[1]) * (mouseX - c[1]) + (mouseY - c[2]) * (mouseY - c[2]))
             * scale * scale
          < (CornerRadius * ScaleUnit) * (CornerRadius * ScaleUnit)
    THEN "rotate" ELSE "drag"

\* the point lies on one of the round corner handles of a selected item
OnCornerHandle(rect, mouseX, mouseY, scale) ==
    \E c \in Corners(rect) :
        4 * ScaleUnit * ScaleUnit
          * ((mouseX - c[1]) * (mouseX - c[1]) + (mouseY - c[2]) * (mouseY - c[2]))
        <= handleSize * handleSize * scale * scale

\* Math.atan2(dy, dx) * 180 / Math.PI on the eight compass rays
OnCompass(dy, dx) == dx = 0 \/ dy = 0 \/ dy = dx \/ dy = -dx

Atan2Deg(dy, dx) ==
    CASE dy = 0 /\ dx >= 0 -> 0
      [] dy = 0 /\ dx < 0 -> 180
      [] dx = 0 /\ dy > 0 -> 90
      [] dx = 0 /\ dy < 0 -> -90
      [] dy = dx /\ dx > 0 -> 45
      [] dy = dx /\ dx < 0 -> -135
      [] dy = -dx /\ dx > 0 -> -45
      [] dy = -dx /\ dx < 0 -> 135

CenterX(rect) == rect.left + rect.width \div 2
CenterY(rect) == rect.top + rect.height \div 2

StartRotate(c, item, rect, mouseX, mouseY) ==
    [c EXCEPT !.isRotating = TRUE,
              !.rotateState = Value(
                  [startAngle |-> Atan2Deg(mouseY - CenterY(rect), mouseX - CenterX(rect)),
                   startRotation |-> item.rotation,
                   centerX |-> CenterX(rect),
                   centerY |-> CenterY(rect)])]

StartDrag(c, item, mouseX, mouseY) ==
    [c EXCEPT !.dragState = Value(
                  [startX |-> mouseX, startY |-> mouseY,
                   itemStartX |-> item.x, itemStartY |-> item.y])]

\* the effect attaches the window listeners
shouldAttachListeners(c, id) ==
    \/ c.dragState # NoValue
    \/ c.rotateState # NoValue
    \/ c.isDragging
    \/ c.isRotating
    \/ selectedId = id

Listening(id) == id \in MountedIds /\ shouldAttachListeners(controllers[id], id)

Geometry(its) == [k \in 1..Len(its) |-> <<its[k].id, its[k].x, its[k].y, its[k].rotation>>]

PastThresholdOnAnyMove(startX, startY, mouseX, mouseY) ==
    mouseX # startX \/ mouseY # startY

PastThreshold(startX, startY, mouseX, mouseY) ==
    \/ Abs(mouseX - startX) > DRAG_THRESHOLD
    \/ Abs(mouseY - startY) > DRAG_THRESHOLD

\* window mousemove listener of one item: the controller it leaves and the
\* handler of the hook it calls
NoCall(c) == [controller |-> c, call |-> "none", x |-> 0, y |-> 0, rotation |-> 0]

handleMouseMove(c, item, mouseX, mouseY, scale) ==
    LET arming == c.dragState # NoValue /\ ~c.isDragging /\ ~c.isRotating
        crossed == arming /\ PastThreshold(c.dragState[1].startX, c.dragState[1].startY,
                                           mouseX, mouseY)
        c1 == IF crossed THEN [c EXCEPT !.isDragging = TRUE] ELSE c
    IN  IF arming /\ ~crossed THEN NoCall(c)
        ELSE IF c.isDragging /\ c.dragState # NoValue
        THEN LET d == c.dragState[1]
             IN  [controller |-> c1, call |-> "drag",
                  x |-> d.itemStartX + DivScale(mouseX - d.startX, scale),
                  y |-> d.itemStartY + DivScale(mouseY - d.startY, scale),
                  rotation |-> 0]
        ELSE IF c.isRotating /\ c.rotateState # NoValue
        THEN LET r == c.rotateState[1]
             IN  [controller |-> c1, call |-> "rotate", x |-> 0, y |-> 0,
                  rotation |-> r.startRotation
                               + (Atan2Deg(mouseY - r.centerY, mouseX - r.centerX)
                                  - r.startAngle)]
        ELSE NoCall(c1)

handleMouseUpAsClick(c) ==
    [c EXCEPT !.dragState = NoValue, !.rotateState = NoValue]

\* window mouseup listener of one item
handleMouseUp(c) ==
    LET click == c.dragState # NoValue /\ ~c.isDragging /\ ~c.isRotating
    IN  [isDragging |-> IF click THEN c.isDragging ELSE FALSE,
         isRotating |-> IF click THEN c.isRotating ELSE FALSE,
         dragState |-> NoValue, rotateState |-> NoValue]

(***************************************************************************)
(* Mouse events.  The button is pressed on a mounted upright item at a     *)
(* point no other item covers; moves and the release reach the window      *)
(* listeners of every item that has them attached.                         *)
(***************************************************************************)
\* canvas coordinates a drag may reach: at most MaxDrift right of or below
\* a multiple of HomePitch; rotations a rotate may reach: up to MaxRotation
MaxDrift == 4
HomePitch == 200
MaxRotation == 45
NearHome(v) == v % HomePitch <= MaxDrift

\* the press history measures a move from the down-point in two ways: the
\* straight-line distance exceeds the threshold, or the distance along the
\* x axis or along the y axis does
FartherThanThreshold(dx, dy) == dx * dx + dy * dy > DRAG_THRESHOLD * DRAG_THRESHOLD
FartherAlongAnAxis(dx, dy) == Abs(dx) > DRAG_THRESHOLD \/ Abs(dy) > DRAG_THRESHOLD

\* the press history: React has rendered between two events
Pressed(mouseX, mouseY) ==
    pointer' = [down |-> TRUE, past |-> FALSE, far |-> FALSE, left |-> FALSE,
                startX |-> mouseX, startY |-> mouseY,
                geometry |-> Geometry(items)]

CanPress(id, mouseX, mouseY) ==
    /\ Idle
    /\ id \in MountedIds
    /\ HasId(items, id)
    /\ Upright(Find(items, id))
    /\ InsideRect(BoundingClientRect(Find(items, id), Live), mouseX, mouseY)
    /\ \A o \in Range(items) :
          (o.id # id /\ o.id \in MountedIds)
             => ~InsideRect(BoundingClientRect(o, Live), mouseX, mouseY)

SelectOnDownSkipped(id) ==
    UNCHANGED <<selectedId, renderPending, lastOp, emitted>>

\* onSelectRef.current(item.id) when the item is not selected
SelectOnDown(id) ==
    IF selectedId # id
    THEN /\ selectedId' = id
         /\ renderPending' = TRUE
         /\ Noted("select", id, "down")
    ELSE UNCHANGED <<selectedId, renderPending, lastOp, emitted>>

\* onMouseDown of the item element
handleMouseDown(id, mouseX, mouseY) ==
    LET item == Find(items, id)
        rect == BoundingClientRect(item, Live)
        cornerType == checkCornerType(rect, mouseX, mouseY, Live.scale)
    IN  /\ CanPress(id, mouseX, mouseY)
        /\ ~(selectedId = id /\ OnCornerHandle(rect, mouseX, mouseY, Live.scale))
        /\ cornerType = "rotate"
              => OnCompass(mouseY - CenterY(rect), mouseX - CenterX(rect))
        /\ SelectOnDown(id)
        /\ controllers' =
              [controllers EXCEPT ![id] =
                  IF cornerType = "rotate"
                  THEN StartRotate(@, item, rect, mouseX, mouseY)
                  ELSE StartDrag(@, item, mouseX, mouseY)]
        /\ Pressed(mouseX, mouseY)
        /\ UNCHANGED <<items, isInternalUpdateRef, bridgeVars, now, allocated, assetVars, cameraVars>>

\* onMouseDown of a corner handle of the selected item
handleCornerRotationStart(id, mouseX, mouseY) ==
    LET item == Find(items, id)
        rect == BoundingClientRect(item, Live)
    IN  /\ CanPress(id, mouseX, mouseY)
        /\ selectedId = id
        /\ OnCornerHandle(rect, mouseX, mouseY, Live.scale)
        /\ OnCompass(mouseY - CenterY(rect), mouseX - CenterX(rect))
        /\ controllers' =
              [controllers EXCEPT ![id] = StartRotate(@, item, rect, mouseX, mouseY)]
        /\ Pressed(mouseX, mouseY)
        /\ UNCHANGED <<hookVars, bridgeVars, renderPending, now, allocated, assetVars, lastOp, emitted,
                       cameraVars>>

\* what the listener of item id does with a move to (mouseX, mouseY)
MoveOf(id, mouseX, mouseY) ==
    IF Listening(id) /\ HasId(items, id)
    THEN handleMouseMove(controllers[id], Find(items, id), mouseX, mouseY, Live.scale)
    ELSE NoCall(controllers[id])

\* the move stays on the rays and in the ranges the model computes exactly
MoveComputable(id, mouseX, mouseY) ==
    LET c == controllers[id]
    IN  /\ (Listening(id) /\ c.isRotating /\ c.rotateState # NoValue)
              => /\ OnCompass(mouseY - c.rotateState[1].centerY,
                              mouseX - c.rotateState[1].centerX)
                 /\ Abs(MoveOf(id, mouseX, mouseY).rotation) <= MaxRotation
        /\ MoveOf(id, mouseX, mouseY).call = "drag"
              => /\ NearHome(MoveOf(id, mouseX, mouseY).x)
                 /\ NearHome(MoveOf(id, mouseX, mouseY).y)

\* window mousemove
WindowMouseMove(mouseX, mouseY) ==
    LET callers == {id \in IdUniverse : MoveOf(id, mouseX, mouseY).call # "none"}
        Moved(item) ==
            LET mv == MoveOf(item.id, mouseX, mouseY)
            IN  IF mv.call = "drag"
                THEN [item EXCEPT !.x = mv.x, !.y = mv.y, !.updatedAt = now]
                ELSE IF mv.call = "rotate"
                THEN [item EXCEPT !.rotation = mv.rotation, !.updatedAt = now]
                ELSE item
    IN  /\ Idle
        /\ \A id \in IdUniverse : MoveComputable(id, mouseX, mouseY)
        /\ controllers' = [id \in IdUniverse |-> MoveOf(id, mouseX, mouseY).controller]
        /\ IF callers # {}
           THEN /\ items' = Map(items, Moved)
                /\ isInternalUpdateRef' = TRUE
                /\ renderPending' = TRUE
                /\ LET id == CHOOSE c \in callers : TRUE
                   IN  Noted(MoveOf(id, mouseX, mouseY).call, id, "pointer")
           ELSE UNCHANGED <<items, isInternalUpdateRef, renderPending, lastOp, emitted>>
        /\ pointer' = IF pointer.down
                      THEN [pointer EXCEPT
                               !.past = @ \/ FartherAlongAnAxis(mouseX - pointer.startX,
                                                                mouseY - pointer.startY),
                               !.far = @ \/ FartherThanThreshold(mouseX - pointer.startX,
                                                                 mouseY - pointer.startY)]
                      ELSE pointer
        /\ UNCHANGED <<selectedId, bridgeVars, now, allocated, assetVars, cameraVars>>

\* handleMouseLeave: setCursor('grab') unless dragging or rotating
handleMouseLeave(c) == c

\* onMouseLeave of the element of an item that is being dragged or rotated:
\* setIsHovering(false) and handleMouseLeave(); hover and cursor are
\* presentation state the controller record does not hold
onMouseLeave(id) ==
    /\ Idle
    /\ pointer.down
    /\ ~pointer.left
    /\ id \in MountedIds
    /\ controllers[id].isDragging \/ controllers[id].isRotating
    /\ controllers' = [controllers EXCEPT ![id] = handleMouseLeave(@)]
    /\ pointer' = [pointer EXCEPT !.left = TRUE]
    /\ UNCHANGED <<hookVars, bridgeVars, renderPending, now, allocated, assetVars, lastOp, emitted,
                   cameraVars>>

\* the disabled prop of DraggableItem: CanvasWithItems does not pass it
disabled == FALSE

onDoubleClickAlwaysForwards(id) ==
    /\ Idle
    /\ id \in MountedIds
    /\ Noted("doubleClick", id, "forwarded")
    /\ UNCHANGED <<hookVars, bridgeVars, renderPending, now, allocated, assetVars, viewVars>>

\* onDoubleClick of the item element: onDoubleClick(item.id) unless the item
\* is disabled, dragging or rotating.  What the page does with the id (it
\* opens its text editor for a note) is page state outside this module
onDoubleClick(id) ==
    /\ Idle
    /\ id \in MountedIds
    /\ Noted("doubleClick", id,
             IF ~disabled /\ ~controllers[id].isDragging /\ ~controllers[id].isRotating
             THEN "forwarded" ELSE "ignored")
    /\ UNCHANGED <<hookVars, bridgeVars, renderPending, now, allocated, assetVars, viewVars>>

\* window mouseup
WindowMouseUp ==
    /\ Idle
    /\ pointer.down
    /\ controllers' = [id \in IdUniverse |->
                          IF Listening(id) THEN handleMouseUp(controllers[id])
                          ELSE controllers[id]]
    /\ pointer' = NoPress
    /\ UNCHANGED <<hookVars, bridgeVars, renderPending, now, allocated, assetVars, lastOp, emitted, cameraVars>>

(***************************************************************************)
(* Specification Spec: identity and layering.  Items are added anywhere    *)
(* in PosMenu, removed and reordered; the page loads what it stored.       *)
(***************************************************************************)
Next ==
    \/ \E p \in AddPayloads : addItem(p)
    \/ handleKeyDown
    \/ \E id \in IdUniverse : handleDelete(id)
    \/ \E id \in IdUniverse : handleMoveUp(id)
    \/ \E id \in IdUniverse : handleMoveDown(id)
    \/ \E s \in StoredSnapshots : loadItemsFound(s)
    \/ loadItemsNone
    \/ RenderPass

Init ==
    \/ Mounted(<<>>, TRUE)
    \/ \E s \in StoredSnapshots : Mounted(s, FALSE)

Spec == Init /\ [][Next]_vars

(***************************************************************************)
(* Specification SpecBridge: every handler of the hook and the page.  The  *)
(* user adds while the collection holds fewer than MaxBridgeItems items.   *)
(***************************************************************************)
MaxBridgeItems == 1

BridgePosMenu == {<<0, 0>>, <<0, 1000>>}

\* lists an earlier session can have stored; the first differs from a new
\* item "1" in position only
BridgeSnapshots ==
    { <<StoredItem("1", "note", <<0, 1000>>, 1)>>,
      <<StoredItem("2", "decoration", <<0, 0>>, 0)>> }

NextBridge ==
    \/ \E t \in Types :
          /\ Len(items) < MaxBridgeItems
          /\ addItem(Payload(t, <<0, 0>>))
    \/ \E id \in IdUniverse, p \in BridgePosMenu : handleDrag(id, p[1], p[2])
    \/ \E id \in IdUniverse, r \in RotationMenu : handleRotate(id, r)
    \/ \E id \in IdUniverse, sz \in ResizeTargets : handleResize(id, sz[1], sz[2])
    \/ \E id \in IdUniverse, c \in ContentMenu : updateItem(id, c)
    \/ \E id \in IdUniverse : handleSelect(id)
    \/ \E id \in IdUniverse : handleDelete(id)
    \/ handleCanvasClick
    \/ \E id \in IdUniverse : handleMoveUp(id)
    \/ \E id \in IdUniverse : handleMoveDown(id)
    \/ \E s \in BridgeSnapshots : loadItemsFound(s)
    \/ loadItemsNone
    \/ loadItemsFailed
    \/ \E id \in IdUniverse, c \in ContentMenu : handleEditText(id, c)
    \/ RenderPass

InitBridge ==
    \/ Mounted(<<>>, TRUE)
    \/ \E s \in BridgeSnapshots : Mounted(s, FALSE)

SpecBridge == InitBridge /\ [][NextBridge]_vars

(***************************************************************************)
(* Specification SpecPointer: the mouse and the camera over a stored list  *)
(* of two items, one of 80 and one of 200 pixels.  The camera is moved     *)
(* while the button is up.                                                 *)
(***************************************************************************)
PointerSnapshot ==
    << [StoredItem("1", "note", <<4600, 4600>>, 1) EXCEPT !.width = 80, !.height = 80],
       StoredItem("2", "note", <<4800, 4600>>, 2) >>

\* the default camera, the canvas zoomed out to 0.5, and a camera that
\* shows the far corner of the canvas
CameraMenu ==
    { DefaultTransform, Transform(MinScale, -2250, -2250), Transform(ScaleUnit, 0, 0) }

\* mouse positions relative to the centre of an item's box on screen
OffsetMenu == { <<0, 0>>, <<4, 0>>, <<4, 4>>, <<8, 0>> }

\* its centre with the offsets, and its bottom right corner
PointsOf(item) ==
    LET rect == BoundingClientRect(item, Live)
    IN  { <<CenterX(rect) + o[1], CenterY(rect) + o[2]>> : o \in OffsetMenu }
        \cup { <<rect.left + rect.width, rect.top + rect.height>> }

ClientPoints == UNION { PointsOf(item) : item \in Range(items) }

InitPointer == Mounted(PointerSnapshot, FALSE)

NextPointer ==
    \/ \E id \in IdUniverse, p \in ClientPoints :
          ~pointer.down /\ handleMouseDown(id, p[1], p[2])
    \/ \E id \in IdUniverse, p \in ClientPoints :
          ~pointer.down /\ handleCornerRotationStart(id, p[1], p[2])
    \/ \E p \in ClientPoints : WindowMouseMove(p[1], p[2])
    \/ WindowMouseUp
    \/ \E id \in IdUniverse : onMouseLeave(id)
    \/ (~pointer.down /\ \E t \in CameraMenu : handleTransformChange(t))
    \/ updateTransform
    \/ (~pointer.down /\ handleCanvasClick)
    \/ RenderPass

SpecPointer == InitPointer /\ [][NextPointer]_vars

(***************************************************************************)
(* Specification SpecClock: the clock advances between the edits of a      *)
(* stored list of two overlapping notes.                                   *)
(***************************************************************************)
ClockSnapshot ==
    << StoredItem("1", "note", <<0, 0>>, 1), StoredItem("2", "note", <<200, 0>>, 2) >>

InitClock == Mounted(ClockSnapshot, FALSE)

\* the object the user moves, turns, resizes and rewrites; both are reordered
ClockIds == {"1"}

NextClock ==
    \/ (Idle /\ Tick)
    \/ \E id \in ClockIds, p \in BridgePosMenu : handleDrag(id, p[1], p[2])
    \/ \E id \in ClockIds, r \in RotationMenu : handleRotate(id, r)
    \/ \E id \in ClockIds, sz \in SizeMenu : handleResize(id, sz[1], sz[2])
    \/ \E id \in ClockIds, c \in ContentMenu : updateItem(id, c)
    \/ \E id \in IdUniverse : handleMoveUp(id)
    \/ \E id \in IdUniverse : handleMoveDown(id)
    \/ RenderPass

SpecClock == InitClock /\ [][NextClock]_vars

(***************************************************************************)
(* Specification SpecZoom: one stored item is pressed and dragged while    *)
(* the wheel zooms the canvas between scale 1 and scale 0.5, also in the   *)
(* middle of a drag.                                                       *)
(***************************************************************************)
ZoomSnapshot == << StoredItem("1", "note", <<4800, 4600>>, 1) >>

\* the centre of the item on screen under either camera, and points 4 and
\* HomePitch pixels away from the first
ZoomPoints ==
    { <<400, 200>>, <<404, 200>>, <<400 + HomePitch, 200>>,
      <<400, 200 + HomePitch>>, <<200, 100>> }

ZoomCameras == { DefaultTransform, Transform(MinScale, -2250, -2250) }

InitZoom == Mounted(ZoomSnapshot, FALSE)

NextZoom ==
    \/ \E id \in IdUniverse, p \in ZoomPoints :
          ~pointer.down /\ handleMouseDown(id, p[1], p[2])
    \/ \E p \in ZoomPoints : WindowMouseMove(p[1], p[2])
    \/ WindowMouseUp
    \/ \E t \in ZoomCameras : handleTransformChange(t)
    \/ updateTransform
    \/ RenderPass

SpecZoom == InitZoom /\ [][NextZoom]_vars

(***************************************************************************)
(* The page's photo assets: handleAddPhoto, the cleanup effect of the page *)
(* and the 'images' store of image-storage.ts.  The store runs the         *)
(* readwrite requests made on it in the order they were made.  The cleanup *)
(* effect is a passive effect of the page's render: it runs some time      *)
(* after the render that changed the page's items, and what resumes        *)
(* handleAddPhoto (the decoded image) is not held back until then.         *)
(***************************************************************************)
MaxRequests == 2

PutRequest(itemId) == [op |-> "put", itemId |-> itemId]
DeleteRequest(itemId) == [op |-> "delete", itemId |-> itemId]

\* saveImage(chapterId, itemId, blob): database.put under chapterId-itemId
saveImage(itemId) == Append(requests, PutRequest(itemId))

\* deleteImage(chapterId, itemId): database.delete of chapterId-itemId
deleteImage(queue, itemId) == Append(queue, DeleteRequest(itemId))

\* every photo handleAddPhoto adds carries an imageUrl
PhotoPayload(pos) == Payload("photo", pos)

\* handleAddPhoto, from the decoded image on: addItem, then saveImage under
\* the id addItem returned
handleAddPhoto(pos) ==
    /\ addItemRef(PhotoPayload(pos))
    /\ requests' = saveImage(NewItem(items, PhotoPayload(pos), now).id)
    /\ UNCHANGED <<images, pagePreviousItemsRef, persistence>>

\* the photos the previous list had and the current list has not
deletedItems(previousItems, currentItems) ==
    SelectSeq(previousItems,
              LAMBDA item : ~HasId(currentItems, item.id) /\ item.type = "photo")

RECURSIVE deleteEach(_, _)
deleteEach(queue, deleted) ==
    IF deleted = <<>> THEN queue
    ELSE deleteEach(deleteImage(queue, Head(deleted).id), Tail(deleted))

\* the page's cleanup effect, once the initial load is over: it runs when
\* the page's items changed since it ran last
cleanupEffect ==
    /\ pageItems # pagePreviousItemsRef
    /\ requests' = deleteEach(requests, deletedItems(pagePreviousItemsRef, pageItems))
    /\ pagePreviousItemsRef' = pageItems
    /\ UNCHANGED <<hookVars, bridgeVars, renderPending, now, allocated,
                   lastOp, emitted, viewVars, images, persistence>>

\* the store executes the oldest request made on it
databaseStep ==
    /\ requests # <<>>
    /\ images' = IF Head(requests).op = "put"
                 THEN images \cup {Head(requests).itemId}
                 ELSE images \ {Head(requests).itemId}
    /\ requests' = Tail(requests)
    /\ UNCHANGED <<hookVars, bridgeVars, renderPending, now, allocated,
                   lastOp, emitted, viewVars, pagePreviousItemsRef, persistence>>

\* a chapter with two stored photos, shown after its initial load
AssetSnapshot ==
    << StoredItem("1", "photo", <<0, 0>>, 1),
       StoredItem("2", "photo", <<200, 0>>, 2) >>

InitAssets == Mounted(AssetSnapshot, FALSE)

NextAssets ==
    \/ \E pos \in BridgePosMenu :
          Len(requests) < MaxRequests /\ handleAddPhoto(pos)
    \/ \E id \in IdUniverse : handleSelect(id)
    \/ Len(requests) < MaxRequests /\ handleKeyDown
    \/ RenderPass
    \/ cleanupEffect
    \/ databaseStep

SpecAssets == InitAssets /\ [][NextAssets]_vars

(***************************************************************************)
(* Back-to-back adds: a second call of the addItem of one render, before   *)
(* the first call's update is rendered.  getNextId, getNextZIndex and      *)
(* getDecorationZIndex of that render read the rendered items, which do    *)
(* not have the first call's item; the updater appends to the queued       *)
(* state, which has it.                                                    *)
(***************************************************************************)
\* the items of the render whose addItem has been called once since
renderedItems == SubSeq(items, 1, Len(items) - 1)

addItemAgain(payload) ==
    /\ renderPending
    /\ emitted = <<>>
    /\ lastOp.op = "add"
    /\ lastOp.branch # "again"
    /\ LET newItem == NewItem(renderedItems, payload, now)
       IN  /\ items' = Append(items, newItem)
           /\ selectedId' = newItem.id
           /\ Handled("add", newItem.id, "again")
           /\ allocated' = allocated \cup {newItem.id}
    /\ ZInRange(items')
    /\ isInternalUpdateRef' = TRUE
    /\ renderPending' = TRUE
    /\ UNCHANGED <<bridgeVars, now, assetVars>>

NextBackToBack ==
    \/ \E payload \in AddPayloads : addItem(payload)
    \/ \E payload \in AddPayloads : addItemAgain(payload)
    \/ \E id \in IdUniverse : handleSelect(id)
    \/ \E id \in IdUniverse : handleDelete(id)
    \/ RenderPass

InitBackToBack == Mounted(<<>>, FALSE)

SpecBackToBack == InitBackToBack /\ [][NextBackToBack]_vars

(***************************************************************************)
(* Specification SpecButtons: one item and a mouse with two buttons.  The  *)
(* handlers of mousedown do not look at the button, so the press of a      *)
(* second button during a press is one more mousedown, on the item or on a *)
(* corner handle; the release of either button is a mouseup.               *)
(***************************************************************************)
\* the centre of the item's box on screen, two points near it and its
\* bottom right corner
ButtonPoints == { <<400, 200>>, <<404, 204>>, <<410, 200>>, <<500, 300>> }

InitButtons == Mounted(ZoomSnapshot, FALSE)

NextButtons ==
    \/ \E id \in IdUniverse, p \in ButtonPoints : handleMouseDown(id, p[1], p[2])
    \/ \E id \in IdUniverse, p \in ButtonPoints : handleCornerRotationStart(id, p[1], p[2])
    \/ \E p \in ButtonPoints : WindowMouseMove(p[1], p[2])
    \/ WindowMouseUp
    \/ handleCanvasClick
    \/ RenderPass

SpecButtons == InitButtons /\ [][NextButtons]_vars

(***************************************************************************)
(* Specification SpecCull: one item is pressed, dragged or rotated while   *)
(* the page adds notes (an add that was started before the press and       *)
(* completes during it), the selected item is removed from the keyboard    *)
(* and the camera moves (the wheel pans the canvas during a press).        *)
(***************************************************************************)
CullCameras == { DefaultTransform, Transform(ScaleUnit, 0, 0) }

InitCull == Mounted(ZoomSnapshot, FALSE)

NextCull ==
    \/ \E id \in IdUniverse, p \in ZoomPoints :
          ~pointer.down /\ handleMouseDown(id, p[1], p[2])
    \/ \E p \in ZoomPoints : WindowMouseMove(p[1], p[2])
    \/ WindowMouseUp
    \/ \E pos \in BridgePosMenu : addItem(Payload("note", pos))
    \/ handleKeyDown
    \/ (~pointer.down /\ handleCanvasClick)
    \/ \E t \in CullCameras : handleTransformChange(t)
    \/ updateTransform
    \/ RenderPass

SpecCull == InitCull /\ [][NextCull]_vars

(***************************************************************************)
(* Specification SpecCamera: the camera is pushed while one item is        *)
(* pressed, dragged and released.  A render that is due is run, and the    *)
(* browser runs a registered frame callback at the next frame, whatever    *)
(* other events arrive.                                                    *)
(***************************************************************************)
NextCamera ==
    \/ \E id \in IdUniverse, p \in ZoomPoints :
          ~pointer.down /\ handleMouseDown(id, p[1], p[2])
    \/ \E p \in ZoomPoints : WindowMouseMove(p[1], p[2])
    \/ WindowMouseUp
    \/ \E t \in CameraMenu : handleTransformChange(t)
    \/ updateTransform
    \/ RenderPass

SpecCamera ==
    /\ InitZoom
    /\ [][NextCamera]_vars
    /\ WF_vars(RenderPass)
    /\ SF_vars(updateTransform)

(***************************************************************************)
(* Specification SpecDoubleClick: one item is pressed, dragged, rotated    *)
(* and released, and dblclick events arrive on it at any time.             *)
(***************************************************************************)
DoubleClickPoints == ZoomPoints \cup {<<500, 300>>}

NextDoubleClick ==
    \/ \E id \in IdUniverse, p \in DoubleClickPoints :
          ~pointer.down /\ handleMouseDown(id, p[1], p[2])
    \/ \E id \in IdUniverse, p \in DoubleClickPoints :
          ~pointer.down /\ handleCornerRotationStart(id, p[1], p[2])
    \/ \E p \in DoubleClickPoints : WindowMouseMove(p[1], p[2])
    \/ WindowMouseUp
    \/ \E id \in IdUniverse : onDoubleClick(id)
    \/ (~pointer.down /\ handleCanvasClick)
    \/ RenderPass

SpecDoubleClick == InitZoom /\ [][NextDoubleClick]_vars

(***************************************************************************)
(* Vocabulary of the properties.                                           *)
(***************************************************************************)
Ids(its) == {i.id : i \in Range(its)}
Decorations(its) == {i \in Range(its) : i.type = "decoration"}
NonDecorations(its) == {i \in Range(its) : i.type # "decoration"}
SameClass(a, b) == (a.type = "decoration") <=> (b.type = "decoration")

\* closed boxes [x, x+width] x [y, y+height] share a point
BoxesIntersect(a, b) ==
    /\ MathMax(a.x, b.x) <= (IF a.x + a.width <= b.x + b.width
                             THEN a.x + a.width ELSE b.x + b.width)
    /\ MathMax(a.y, b.y) <= (IF a.y + a.height <= b.y + b.height
                             THEN a.y + a.height ELSE b.y + b.height)

\* two lists differ in set membership or in a compared field of some object
MateriallyDifferent(a, b) ==
    \/ Ids(a) # Ids(b)
    \/ \E i \in Range(a), j \in Range(b) :
          /\ i.id = j.id
          /\ <<i.x, i.y, i.rotation, i.width, i.height, i.zIndex>>
               # <<j.x, j.y, j.rotation, j.width, j.height, j.zIndex>>

UserMutations == {"add", "delete", "drag", "rotate", "resize", "moveUp", "moveDown"}
Supplies == {"load", "editText"}

\* a handler has run and the first render it causes has not
FirstRenderDue == renderPending /\ emitted = <<>> /\ lastOp.op # "none"

(***************************************************************************)
(* C1  Layering class ordering: whenever the collection holds decorations  *)
(* and non-decorations, every decoration's zIndex is strictly below every  *)
(* non-decoration's zIndex.                                                *)
(***************************************************************************)
C1_LayeringClassOrdering ==
    \A d \in Decorations(items), n \in NonDecorations(items) :
        d.zIndex < n.zIndex

OverlappingAbove(its, t) ==
    {o \in Range(its) : /\ o.id # t.id
                        /\ SameClass(o, t)
                        /\ BoxesIntersect(t, o)
                        /\ o.zIndex > t.zIndex}

ForwardZIndex(its, t) ==
    LET above == OverlappingAbove(its, t)
        top == SetMax({o.zIndex : o \in {c \in Range(its) : SameClass(c, t)}})
    IN  IF above # {} THEN SetMin({o.zIndex : o \in above}) + 1
        ELSE IF t.zIndex = top THEN t.zIndex
        ELSE top + 1

C3_ReorderForward ==
    [][\A id \in IdUniverse :
          (HasId(items, id) /\ handleMoveUp(id)) =>
             LET t == Find(items, id)
                 z == ForwardZIndex(items, t)
             IN  /\ Len(items') = Len(items)
                 /\ \A k \in 1..Len(items) :
                       IF items[k].id = id /\ z # t.zIndex
                       THEN items'[k] = [items[k] EXCEPT !.zIndex = z,
                                                         !.updatedAt = now]
                       ELSE items'[k] = items[k]]_vars

\* the target leapfrogged the nearer of two overlapping objects above it and
\* now shares its zIndex with the farther one
C3_Witness ==
    /\ lastOp.op = "moveUp"
    /\ lastOp.branch = "leapfrog"
    /\ Len(items) = 3
    /\ LET t == Find(items, lastOp.id)
       IN  /\ \E o \in Range(items) :
                o.id # t.id /\ SameClass(o, t) /\ BoxesIntersect(o, t)
                /\ o.zIndex = t.zIndex - 1
           /\ \E o \in Range(items) :
                o.id # t.id /\ SameClass(o, t) /\ BoxesIntersect(o, t)
                /\ o.zIndex >= t.zIndex

(***************************************************************************)
(* C4  Click vs. drag: from a press on an item (on its drag or its rotate  *)
(* affordance) to the release, as long as no move went past the movement   *)
(* threshold, the x, y and rotation of every object stay what they were    *)
(* at the press.                                                           *)
(***************************************************************************)
C4_ClickLeavesGeometry ==
    [][(/\ pointer.down
        /\ ~pointer.past
        /\ pointer'.down => ~pointer'.past)
          => Geometry(items') = pointer.geometry]_vars

(***************************************************************************)
(* C6  Culling conservativeness: whatever the camera, the selected object  *)
(* is in the visible subset.                                               *)
(***************************************************************************)
C6_SelectedIsVisible ==
    (selectedId # Null /\ HasId(items, selectedId))
       => \E v \in Range(visibleItems(items, canvasTransform, selectedId)) :
             v.id = selectedId

\* the selected object lies outside the padded viewport and is rendered
C6_Witness ==
    /\ selectedId # Null
    /\ HasId(items, selectedId)
    /\ OutsideBounds(Find(items, selectedId), paddedBounds(canvasTransform))
    /\ Idle
    /\ selectedId \in MountedIds
    /\ \E o \in Range(items) : o.id \notin MountedIds

(***************************************************************************)
(* C5  Selection validity: the selected id is null or the id of an object  *)
(* currently in the collection.                                            *)
(***************************************************************************)
C5_SelectionValid ==
    selectedId = Null \/ HasId(items, selectedId)

(***************************************************************************)
(* C7  Referential no-op: drag, rotate, resize, remove, reorder, select    *)
(* or updateItem with an id that is not in the collection leaves the       *)
(* collection and the selection unchanged.                                 *)
(***************************************************************************)
MissingIdOperation(id) ==
    \/ \E p \in PosMenu : handleDrag(id, p[1], p[2])
    \/ \E r \in RotationMenu : handleRotate(id, r)
    \/ \E sz \in SizeMenu : handleResize(id, sz[1], sz[2])
    \/ \E c \in ContentMenu : updateItem(id, c)
    \/ handleSelect(id)
    \/ handleDelete(id)
    \/ handleMoveUp(id)
    \/ handleMoveDown(id)

C7_MissingIdNoOp ==
    [][\A id \in IdUniverse :
          (~HasId(items, id) /\ MissingIdOperation(id)) =>
             (items' = items /\ selectedId' = selectedId)]_vars

(***************************************************************************)
(* C8  Sync emission: the first render after a user mutation (add, remove, *)
(* drag, rotate, resize, reorder) that leaves the collection materially    *)
(* different from the last supplied snapshot invokes onItemsChange with    *)
(* the collection.                                                         *)
(***************************************************************************)
C8_SyncEmission ==
    [][(/\ FirstRenderDue
        /\ lastOp.op \in UserMutations
        /\ lastOp.branch # "missing"
        /\ MateriallyDifferent(items, pageItems)
        /\ RenderPass) => emitted' = <<items>>]_vars

(***************************************************************************)
(* C9  Echo suppression: no step of a chain started by the supply of a     *)
(* snapshot, or by anything other than a user mutation, invokes            *)
(* onItemsChange, and the render that receives the echo of an emitted list *)
(* does not invoke it again.                                               *)
(***************************************************************************)
C9_EchoSuppression ==
    [][(lastOp'.op \notin UserMutations \/ emitted # <<>>)
          => emitted' = <<>>]_vars

\* a snapshot was supplied after an edit and ignored by the engine: the
\* collection differs from it and the render that follows has to stay silent
C9_Witness ==
    /\ lastOp.op \in Supplies
    /\ renderPending
    /\ isInternalUpdateRef
    /\ pageItems # <<>>
    /\ MateriallyDifferent(items, pageItems)

(***************************************************************************)
(* C10  External replacement: once the renders caused by the supply of a   *)
(* snapshot are done, the collection equals the snapshot in every field.   *)
(***************************************************************************)
C10_ExternalReplacement ==
    [][(/\ lastOp.op \in Supplies
        /\ RenderPass
        /\ ~renderPending') => items' = pageItems']_vars

(***************************************************************************)
(* C11  Id non-reuse: an add never returns an id that an earlier add of    *)
(* the session has returned, also after the object carrying that id has    *)
(* been removed.                                                           *)
(***************************************************************************)
C11_IdNonReuse ==
    [][(Idle /\ lastOp'.op = "add") => lastOp'.id \notin allocated]_vars

(***************************************************************************)
(* C12  Reorder backward mirrors forward: handleMoveDown(id) on an         *)
(* existing object sets its zIndex to neighbor.zIndex - 1, neighbor being  *)
(* the same-class overlapping object with the largest zIndex below the     *)
(* target; without such an object it sets it to (min zIndex in its         *)
(* class) - 1, and it changes nothing when the target is already           *)
(* bottom-most in its class.                                               *)
(***************************************************************************)
OverlappingBelow(its, t) ==
    {o \in Range(its) : /\ o.id # t.id
                        /\ SameClass(o, t)
                        /\ BoxesIntersect(t, o)
                        /\ o.zIndex < t.zIndex}

BackwardZIndex(its, t) ==
    LET below == OverlappingBelow(its, t)
        bottom == SetMin({o.zIndex : o \in {c \in Range(its) : SameClass(c, t)}})
    IN  IF below # {} THEN SetMax({o.zIndex : o \in below}) - 1
        ELSE IF t.zIndex = bottom THEN t.zIndex
        ELSE bottom - 1

C12_ReorderBackward ==
    [][\A id \in IdUniverse :
          (HasId(items, id) /\ handleMoveDown(id)) =>
             LET t == Find(items, id)
                 z == BackwardZIndex(items, t)
             IN  /\ Len(items') = Len(items)
                 /\ \A k \in 1..Len(items) :
                       IF items[k].id = id /\ z # t.zIndex
                       THEN items'[k] = [items[k] EXCEPT !.zIndex = z,
                                                         !.updatedAt = now]
                       ELSE items'[k] = items[k]]_vars

C14_PositiveSize ==
    \A i \in Range(items) : i.width > 0 /\ i.height > 0

Engaged(c) ==
    c.dragState # NoValue \/ c.rotateState # NoValue \/ c.isDragging \/ c.isRotating

C18_CancellationOnLeave ==
    [][/\ \A id \in IdUniverse :
             onMouseLeave(id) =>
                ~controllers'[id].isDragging /\ ~controllers'[id].isRotating
       /\ pointer.left => Geometry(items') = Geometry(items)]_vars

(***************************************************************************)
(* C19  select and deselect are pure selection changes: neither the        *)
(* handler nor a render it causes changes the set of objects or a field    *)
(* of an object; select(id) makes id the selection and deselect clears it. *)
(***************************************************************************)
SelectionChanges == {"select", "canvasClick"}

C20_ReorderFrame ==
    [][\A id \in IdUniverse :
          (handleMoveUp(id) \/ handleMoveDown(id)) =>
             /\ Len(items') = Len(items)
             /\ \A k \in 1..Len(items) :
                   IF items[k].id = id
                   THEN [items'[k] EXCEPT !.zIndex = items[k].zIndex,
                                          !.updatedAt = items[k].updatedAt]
                          = items[k]
                   ELSE items'[k] = items[k]
             /\ selectedId' = selectedId]_vars

\* an object went backward past an overlapping neighbour in a collection
\* of three, while another object was the selection
C20_Witness ==
    /\ lastOp.op = "moveDown"
    /\ lastOp.branch = "leapfrog"
    /\ Len(items) = 3
    /\ selectedId # lastOp.id
    /\ selectedId # Null
    /\ \E o \in Range(items) :
          /\ o.id # lastOp.id
          /\ ~BoxesIntersect(o, Find(items, lastOp.id))

(***************************************************************************)
(* C21  remove: handleDelete(id) on an existing object removes that        *)
(* object and nothing else, and clears the selection exactly when id was   *)
(* the selection; Delete / Backspace removes the selected object in the    *)
(* same way and does nothing when nothing is selected.                     *)
(***************************************************************************)
Without(its, id) == SelectSeq(its, LAMBDA i : i.id # id)

C21_RemoveExactly ==
    [][/\ \A id \in IdUniverse :
             (HasId(items, id) /\ handleDelete(id)) =>
                /\ items' = Without(items, id)
                /\ Len(items') = Len(items) - 1
                /\ selectedId' = IF selectedId = id THEN Null ELSE selectedId
       /\ handleKeyDown =>
             IF selectedId = Null
             THEN items' = items /\ selectedId' = Null
             ELSE items' = Without(items, selectedId) /\ selectedId' = Null]_vars

\* one of two objects was removed while the other was the selection
C21_Witness ==
    /\ lastOp.op = "delete"
    /\ lastOp.branch = "hit"
    /\ Len(items) = 1
    /\ selectedId = items[1].id
    /\ ParseInt(lastOp.id) < ParseInt(selectedId)

(***************************************************************************)
(* C22  updatedAt stamping: a step that changes the position, rotation,    *)
(* size, zIndex or content of an object stores the current time as its     *)
(* updatedAt, and the updatedAt of an object never decreases.              *)
(***************************************************************************)
Stamped(i) == <<i.x, i.y, i.rotation, i.width, i.height, i.zIndex, i.content>>

C22_UpdatedAtStamping ==
    [][\A i \in Range(items), j \in Range(items') :
          i.id = j.id =>
             /\ j.updatedAt >= i.updatedAt
             /\ Stamped(j) # Stamped(i) => j.updatedAt = now]_vars

\* every kind of edit has been stamped after the clock advanced: the two
\* objects carry the later time and differ from what was stored
C22_Witness ==
    /\ now = MaxNow
    /\ Len(items) = 2
    /\ \A i \in Range(items) : i.updatedAt = MaxNow /\ i.createdAt = 0
    /\ \A i \in Range(items) : i.zIndex # Find(ClockSnapshot, i.id).zIndex
    /\ \E i \in Range(items) : i.rotation # 0
    /\ \E i \in Range(items) : i.width # 200
    /\ \E i \in Range(items) : i.content # "a"

(***************************************************************************)
(* C23  Drag threshold: a controller that holds a drag start record is     *)
(* Dragging exactly when a move since the press was farther than           *)
(* DRAG_THRESHOLD pixels from the down-point; until then it is armed and   *)
(* the collection is as it was at the press.                               *)
(***************************************************************************)
ArmedForDrag(c) == c.dragState # NoValue /\ ~c.isDragging /\ ~c.isRotating

PositionAtPress(id) ==
    LET k == CHOOSE n \in 1..Len(pointer.geometry) : pointer.geometry[n][1] = id
    IN  [x |-> pointer.geometry[k][2], y |-> pointer.geometry[k][3]]

C24_DragPosition ==
    [][\A id \in IdUniverse, p \in ZoomPoints :
          (/\ WindowMouseMove(p[1], p[2])
           /\ HasId(items, id)
           /\ Listening(id)
           /\ controllers[id].isDragging
           /\ controllers[id].dragState # NoValue)
             => LET new == Find(items', id)
                    start == PositionAtPress(id)
                IN  /\ (new.x - start.x) * Live.scale
                          = (p[1] - pointer.startX) * ScaleUnit
                    /\ (new.y - start.y) * Live.scale
                          = (p[2] - pointer.startY) * ScaleUnit]_vars

\* pressed under the camera at scale 1, the item was dragged HomePitch
\* pixels to the right after the camera had gone to scale 0.5
C24_Witness ==
    /\ pointer.down
    /\ pointer.startX = 400 /\ pointer.startY = 200
    /\ pointer.geometry = Geometry(ZoomSnapshot)
    /\ Live.scale = MinScale
    /\ lastOp.op = "drag"
    /\ items[1].x = 4800 + 2 * HomePitch
    /\ items[1].y = 4600

(***************************************************************************)
(* C25  Select on down: right after a press on an item, on its drag        *)
(* affordance, its rotate affordance or a corner handle, the item whose    *)
(* controller the press has armed is the selection.                        *)
(***************************************************************************)
C25_SelectOnDown ==
    [][(~pointer.down /\ pointer'.down) =>
          \E id \in IdUniverse :
             /\ Engaged(controllers'[id])
             /\ selectedId' = id
             /\ \A o \in IdUniverse \ {id} : ~Engaged(controllers'[o])]_vars

\* the press that has just armed a rotation selected the item
C25_Witness ==
    /\ pointer.down
    /\ lastOp = [op |-> "select", id |-> selectedId, branch |-> "down"]
    /\ renderPending
    /\ controllers[selectedId].isRotating
    /\ Geometry(items) = pointer.geometry

(***************************************************************************)
(* C26  Per-event idempotence: the window mousemove that has just been     *)
(* handled, delivered once more, leaves every controller and the position  *)
(* and rotation of every item as they are.                                 *)
(***************************************************************************)
C26_MoveIdempotent ==
    [][\A p \in ZoomPoints :
          WindowMouseMove(p[1], p[2]) =>
             \A id \in IdUniverse :
                LET again == MoveOf(id, p[1], p[2])'
                IN  /\ again.controller = controllers'[id]
                    /\ again.call = "drag" =>
                          /\ Find(items', id).x = again.x
                          /\ Find(items', id).y = again.y
                    /\ again.call = "rotate" =>
                          Find(items', id).rotation = again.rotation]_vars

(***************************************************************************)
(* C27  Engine/store convergence: when no render is pending and the load   *)
(* has completed, the engine's collection and the page's list hold the     *)
(* same ids with the same x, y, rotation, width, height and zIndex.        *)
(***************************************************************************)
C27_Convergence ==
    (Idle /\ ~loadPending) => ~MateriallyDifferent(items, pageItems)

(***************************************************************************)
(* C28  Asset cleanup isolation: the store never executes a delete that    *)
(* takes away the blob of an object the collection holds.  Whatever the    *)
(* order of removals, photo adds, the cleanup effect and the store's       *)
(* executions, a blob that leaves the 'images' store while an object of    *)
(* the collection has its id is the blob of an earlier object of that id:  *)
(* the put of the present object is still to be executed.                  *)
(***************************************************************************)
PutPending(queue, id) == \E k \in 1..Len(queue) : queue[k] = PutRequest(id)

C28_AssetCleanupIsolation ==
    [][\A id \in IdUniverse :
          (id \in images /\ id \notin images' /\ HasId(items, id))
             => PutPending(requests', id)]_vars

(***************************************************************************)
(* C29  Back-to-back adds: when addItem is called twice on one render,     *)
(* the second call before the first is rendered, the two objects appended  *)
(* have distinct ids.                                                      *)
(***************************************************************************)
C29_BackToBackAdds ==
    (lastOp.op = "add" /\ lastOp.branch = "again")
        => items[Len(items)].id # items[Len(items) - 1].id

(***************************************************************************)
(* C30  Exclusive interaction state: the pointer controller of every       *)
(* object is in one of Idle, ArmedForDrag, Dragging, ArmedForRotate and    *)
(* Rotating: its dragging and rotating flags are never both true, and it   *)
(* never holds a drag start record and a rotate start record together.     *)
(***************************************************************************)
C30_ExclusiveInteraction ==
    \A id \in IdUniverse :
        /\ ~(controllers[id].isDragging /\ controllers[id].isRotating)
        /\ ~(controllers[id].dragState # NoValue /\ controllers[id].rotateState # NoValue)

(***************************************************************************)
(* C31  Bring-forward converges: handleMoveUp(id) applied again and again  *)
(* to one object, the others left alone, raises its zIndex on every call   *)
(* that is not a no-op, and after at most (number of objects + 1) calls    *)
(* it is a no-op, with the object's zIndex at or above the zIndex of every *)
(* other object of its class.                                              *)
(***************************************************************************)
RECURSIVE ForwardConverges(_, _, _)
ForwardConverges(its, id, calls) ==
    LET r == MoveUpUpdater(its, id, now)
    IN  IF r.bail
        THEN \A o \in Range(its) :
                 SameClass(o, Find(its, id)) => Find(its, id).zIndex >= o.zIndex
        ELSE /\ calls > 0
             /\ Find(r.items, id).zIndex > Find(its, id).zIndex
             /\ ForwardConverges(r.items, id, calls - 1)

C31_BringForwardConverges ==
    \A id \in Ids(items) : ForwardConverges(items, id, Len(items) + 1)

\* a bring-forward has passed one neighbour and the next call passes another
C31_Witness ==
    /\ lastOp.op = "moveUp"
    /\ lastOp.branch = "leapfrog"
    /\ MoveUpUpdater(items, lastOp.id, now).branch = "leapfrog"

(***************************************************************************)
(* C32  No culling during a drag or a rotation: whenever the controller of *)
(* an object of the collection is Dragging or Rotating, the object is in   *)
(* the visible subset computed from the collection, the selection and the  *)
(* camera, whatever adds, removals of other objects, canvas clicks and     *)
(* camera changes come in between.                                         *)
(***************************************************************************)
C32_NoCullingInProgress ==
    \A id \in Ids(items) :
        (controllers[id].isDragging \/ controllers[id].isRotating)
            => id \in Ids(visibleItems(items, canvasTransform, selectedId))

(***************************************************************************)
(* C33  Culling exactness: the visible subset is the objects of the        *)
(* collection, in their order, that are selected or whose box              *)
(* [x, x + width] x [y, y + height] meets the viewport                     *)
(* [-positionX / scale, (innerWidth - positionX) / scale] x                *)
(* [-positionY / scale, (innerHeight - positionY) / scale] widened by 200  *)
(* canvas units on every side.  The comparisons are made in screen units,  *)
(* multiplied by the scale, so that no quotient is taken.                  *)
(***************************************************************************)
MeetsPaddedViewport(item, t) ==
    /\ (item.x + item.width + 200) * t.scale >= -t.positionX * ScaleUnit
    /\ (item.x - 200) * t.scale <= (InnerWidth - t.positionX) * ScaleUnit
    /\ (item.y + item.height + 200) * t.scale >= -t.positionY * ScaleUnit
    /\ (item.y - 200) * t.scale <= (InnerHeight - t.positionY) * ScaleUnit

C34_CameraCoalescing ==
    /\ [](frameCallbacks <= 1)
    /\ [][frameCallbacks' < frameCallbacks => canvasTransform' = Live]_vars
    /\ \A t \in CameraMenu : (Live = t) ~> (canvasTransform = t \/ Live # t)

\* two pushes since the last frame, the second back to the transform in
\* use, and one callback registered
C34_Witness ==
    /\ frameCallbacks = 1
    /\ pendingTransformRef # NoValue
    /\ pendingTransformRef[1] = transformRef

(***************************************************************************)
(* C35  Rotation is stored as given: handleRotate(id, r) on an object of   *)
(* the collection leaves its rotation equal to r, also for r below 0 and   *)
(* for r of 360 and more, and a step that is not a rotate leaves the       *)
(* rotation of every object as it is.                                      *)
(***************************************************************************)
C35_RotationUnnormalized ==
    [][/\ \A id \in ClockIds, r \in RotationMenu :
             (handleRotate(id, r) /\ HasId(items, id))
                 => Find(items', id).rotation = r
       /\ lastOp'.op # "rotate"
             => \A id \in Ids(items) \cap Ids(items') :
                    Find(items', id).rotation = Find(items, id).rotation]_vars

\* a rotate has stored 450 degrees, and a later step has kept them
C35_Witness ==
    /\ lastOp.op # "rotate"
    /\ Idle
    /\ \E i \in Range(items) : i.rotation >= 360

(***************************************************************************)
(* C36  Double-click forwarding: a dblclick on an object forwards its id   *)
(* (onDoubleClick(item.id)) exactly when the object is enabled and its     *)
(* controller is neither dragging nor rotating, and it leaves the x, y,    *)
(* width, height, rotation and zIndex of every object as they are.         *)
(***************************************************************************)
C36_DoubleClickForwarding ==
    [][\A id \in IdUniverse :
          onDoubleClick(id) =>
             /\ lastOp'.id = id
             /\ lastOp'.branch = "forwarded"
                   <=> /\ ~disabled
                       /\ ~controllers[id].isDragging
                       /\ ~controllers[id].isRotating
             /\ Len(items') = Len(items)
             /\ \A k \in 1..Len(items) :
                   <<items'[k].id, items'[k].x, items'[k].y, items'[k].width,
                     items'[k].height, items'[k].rotation, items'[k].zIndex>>
                   = <<items[k].id, items[k].x, items[k].y, items[k].width,
                       items[k].height, items[k].rotation, items[k].zIndex>>]_vars

\* a dblclick was forwarded from an item that had been dragged from its place
C36_Witness ==
    /\ lastOp.op = "doubleClick"
    /\ lastOp.branch = "forwarded"
    /\ Find(items, lastOp.id).x # 4800

(***************************************************************************)
(* CanvasFoundation: the camera collaborator.  It keeps the scale in a     *)
(* ref, restores it from localStorage after it is mounted, saves it 500 ms *)
(* after the last change, and reports every transform of the               *)
(* TransformWrapper to the canvas through onTransformChange.  The          *)
(* TransformWrapper is the react-zoom-pan-pinch component: setTransform    *)
(* with a duration of 0 sets its state at once, with a duration it         *)
(* animates to the target, gestures keep the scale between minScale and    *)
(* maxScale, and every change of its state calls onTransformed.            *)
(***************************************************************************)
\* const ZOOM_LEVELS = [0.5, 0.75, 1.0]
ZOOM_LEVELS == << ScaleUnit \div 2, (3 * ScaleUnit) \div 4, ScaleUnit >>

\* zoomTo and handleResetZoom calls whose setTimeout has yet to run
MaxZoomTimeouts == 2

\* the parts of the state a foundation handler leaves alone, apart from the
\* camera of the canvas
canvasFrame == <<hookVars, bridgeVars, renderPending, now, allocated, assetVars,
                 lastOp, emitted, controllers, pointer>>

\* the transform reported with a scale: the position is the one that shows
\* the canvas point of the default camera at the centre of the window, the
\* point zoomTo keeps there
Shown(scale) ==
    Transform(scale, InnerWidth \div 2 - MulScale(5000, scale),
              InnerHeight \div 2 - MulScale(4900, scale))

\* a level in hundredths
Hundredths(level) == (level * 100) \div ScaleUnit

\* Math.round(actualScale * 100) / 100, in hundredths
roundedScale(actualScale) == (actualScale * 200 + ScaleUnit) \div (2 * ScaleUnit)

\* ZOOM_LEVELS.reduce(...): the first of the levels closest to the scale
RECURSIVE closestIdx(_, _, _)
closestIdx(rounded, closest, idx) ==
    IF idx > Len(ZOOM_LEVELS) THEN closest
    ELSE LET currentDiff == Abs(Hundredths(ZOOM_LEVELS[closest]) - rounded)
             newDiff == Abs(Hundredths(ZOOM_LEVELS[idx]) - rounded)
         IN  closestIdx(rounded, IF newDiff < currentDiff THEN idx ELSE closest,
                        idx + 1)

currentZoomIndex == closestIdx(roundedScale(foundation.currentScaleRef), 1, 1)
canZoomIn == currentZoomIndex < Len(ZOOM_LEVELS)
canZoomOut == currentZoomIndex > 1

\* loadFromStorage(STORAGE_KEYS.SCALE, defaultValue): JSON.parse of the
\* entry, which gives back the number saveToStorage wrote with
\* JSON.stringify
loadFromStorage(defaultValue) ==
    IF viewportStorage = NoValue THEN defaultValue ELSE viewportStorage[1]

\* an onTransformed that uses the drift it found in place of the scale it
\* expected
scaleToUseDrift(f, scale) ==
    IF f.isPanningRef /\ ~f.isZoomingRef /\ scale # f.currentScaleRef
    THEN scale - f.currentScaleRef
    ELSE scale

\* onTransformed: the scale it uses, the scale of the ref while a pan is in
\* progress and no zoom is
scaleToUse(f, scale) ==
    IF f.isPanningRef /\ ~f.isZoomingRef /\ scale # f.currentScaleRef
    THEN f.currentScaleRef
    ELSE scale

\* onTransformed(ref) with ref.state.scale = scale, on the foundation f,
\* while the wrapper runs the animation (or none): it corrects a drifted
\* scale with setTransform, updates the ref, arms the save timer and calls
\* onTransformChange with the ref
onTransformed(f, scale, animation) ==
    LET used == scaleToUse(f, scale)
    IN  /\ foundation' = [f EXCEPT !.currentScaleRef = used,
                                   !.saveTimeoutRef = TRUE]
        /\ wrapper' = [scale |-> used,
                       animation |-> IF used = scale THEN animation ELSE NoValue]
        /\ storePending(Shown(used))
        /\ UNCHANGED <<canvasFrame, canvasTransform, transformRef, viewportStorage>>

\* the effect that loads the saved viewport, once, after the mount
hydrationEffect ==
    /\ Idle
    /\ ~foundation.hasHydratedRef
    /\ LET savedScale == loadFromStorage(ScaleUnit)
       IN  onTransformed([foundation EXCEPT !.currentScaleRef = savedScale,
                                            !.hasHydratedRef = TRUE],
                         savedScale, NoValue)

\* zoomTo(targetScale, 200) and the body of handleResetZoom
zoomTo(targetScale) ==
    /\ Idle
    /\ foundation.hasHydratedRef
    /\ Len(foundation.zoomTimeouts) < MaxZoomTimeouts
    /\ foundation' = [foundation EXCEPT !.currentScaleRef = targetScale,
                                        !.isZoomingRef = TRUE,
                                        !.zoomTimeouts = Append(@, targetScale)]
    /\ wrapper' = [wrapper EXCEPT !.animation = Value(targetScale)]
    /\ UNCHANGED <<canvasFrame, canvasTransform, transformRef, pendingTransformRef,
                   rafRef, frameCallbacks, viewportStorage>>

handleZoomIn == canZoomIn /\ zoomTo(ZOOM_LEVELS[currentZoomIndex + 1])

handleZoomOut == canZoomOut /\ zoomTo(ZOOM_LEVELS[currentZoomIndex - 1])

handleResetZoom == zoomTo(ScaleUnit)

\* the setTimeout of zoomTo and handleResetZoom, 230 ms after the call
zoomTimeout ==
    /\ Idle
    /\ foundation.zoomTimeouts # <<>>
    /\ foundation' = [foundation EXCEPT
                         !.currentScaleRef = Head(foundation.zoomTimeouts),
                         !.isZoomingRef = FALSE,
                         !.zoomTimeouts = Tail(@)]
    /\ UNCHANGED <<canvasFrame, canvasTransform, transformRef, pendingTransformRef,
                   rafRef, frameCallbacks, wrapper, viewportStorage>>

\* the scales strictly between two scales
Between(a, b) == { s \in 0..ScaleUnit : (a < s /\ s < b) \/ (b < s /\ s < a) }

\* a frame of the animation setTransform started: the wrapper is at a scale
\* between the one it had and the target, or at the target and done
animationFrame ==
    /\ Idle
    /\ wrapper.animation # NoValue
    /\ \/ onTransformed(foundation, wrapper.animation[1], NoValue)
       \/ \E s \in Between(wrapper.scale, wrapper.animation[1]) :
             onTransformed(foundation, s, wrapper.animation)

\* onPanningStart
onPanningStart ==
    /\ Idle
    /\ foundation.hasHydratedRef
    /\ ~foundation.isPanningRef
    /\ foundation' = [foundation EXCEPT !.isPanningRef = TRUE,
                                        !.panningEndTimeoutRef = FALSE]
    /\ UNCHANGED <<canvasFrame, canvasTransform, transformRef, pendingTransformRef,
                   rafRef, frameCallbacks, wrapper, viewportStorage>>

\* the wrapper follows the mouse of a pan
panning ==
    /\ Idle
    /\ foundation.isPanningRef
    /\ ~foundation.panningEndTimeoutRef
    /\ onTransformed(foundation, wrapper.scale, wrapper.animation)

\* onPanningStop, and the mouseup listener of the window
onPanningStop ==
    /\ Idle
    /\ foundation.isPanningRef
    /\ ~foundation.panningEndTimeoutRef
    /\ foundation' = [foundation EXCEPT !.panningEndTimeoutRef = TRUE]
    /\ UNCHANGED <<canvasFrame, canvasTransform, transformRef, pendingTransformRef,
                   rafRef, frameCallbacks, wrapper, viewportStorage>>

\* the setTimeout of onPanningStop, 100 ms after it
panningEndTimeout ==
    /\ Idle
    /\ foundation.panningEndTimeoutRef
    /\ foundation' = [foundation EXCEPT !.isPanningRef = FALSE,
                                        !.panningEndTimeoutRef = FALSE]
    /\ UNCHANGED <<canvasFrame, canvasTransform, transformRef, pendingTransformRef,
                   rafRef, frameCallbacks, wrapper, viewportStorage>>

\* a pinch: the wrapper takes a scale between minScale and maxScale
pinch(scale) ==
    /\ Idle
    /\ foundation.hasHydratedRef
    /\ scale # wrapper.scale
    /\ onTransformed(foundation, scale, NoValue)

\* the setTimeout of saveViewportState, 500 ms after the last call
saveViewportState ==
    /\ Idle
    /\ foundation.saveTimeoutRef
    /\ viewportStorage' = Value(foundation.currentScaleRef)
    /\ foundation' = [foundation EXCEPT !.saveTimeoutRef = FALSE]
    /\ UNCHANGED <<canvasFrame, canvasTransform, transformRef, pendingTransformRef,
                   rafRef, frameCallbacks, wrapper>>

(***************************************************************************)
(* Specification SpecFoundation: the foundation is mounted over whatever   *)
(* an earlier session has saved, hydrates, and is zoomed, panned and       *)
(* pinched while the canvas applies what it is told at animation frames.   *)
(***************************************************************************)
\* what saveViewportState can have stored: nothing, or a scale between
\* minScale and maxScale
StoredViewports == {NoValue} \cup { Value(s) : s \in MinScale..ScaleUnit }

InitFoundation ==
    \E stored \in StoredViewports :
        /\ MountedCanvas(ZoomSnapshot, FALSE)
        /\ MountedFoundation(stored, FALSE)

NextFoundation ==
    \/ hydrationEffect
    \/ handleZoomIn
    \/ handleZoomOut
    \/ handleResetZoom
    \/ zoomTimeout
    \/ animationFrame
    \/ onPanningStart
    \/ panning
    \/ onPanningStop
    \/ panningEndTimeout
    \/ \E scale \in MinScale..ScaleUnit : pinch(scale)
    \/ saveViewportState
    \/ updateTransform
    \/ RenderPass

SpecFoundation == InitFoundation /\ [][NextFoundation]_vars

\* C37 (positive scale): in every reachable state the scale in the refs of
\* the foundation, which it hands to the items, and every scale it has
\* pushed to the canvas (pending, applied, rendered) is greater than 0, and
\* so is every scale it stores for the next session, which stays between
\* minScale and maxScale.
C37_PositiveScale ==
    /\ foundation.currentScaleRef > 0
    /\ wrapper.scale > 0
    /\ Live.scale > 0
    /\ transformRef.scale > 0
    /\ canvasTransform.scale > 0
    /\ viewportStorage # NoValue
          => viewportStorage[1] \in MinScale..ScaleUnit

\* the viewport was restored at scale 0.5 and rendered, and a reset to 1.0
\* is on its way: the animation has reported a scale in between
C37_Witness ==
    /\ foundation.hasHydratedRef
    /\ canvasTransform.scale = MinScale
    /\ foundation.isZoomingRef
    /\ wrapper.animation # NoValue
    /\ wrapper.animation[1] = ScaleUnit
    /\ Live.scale \in Between(MinScale, ScaleUnit)
    /\ foundation.currentScaleRef = Live.scale

(***************************************************************************)
(* C38  Leapfrog passes only the nearest neighbor: when handleMoveUp(id)   *)
(* finds an overlapping same-class object above the target, the target's   *)
(* zIndex afterwards is strictly greater than the zIndex of the nearest    *)
(* such object (the one with the smallest zIndex above the target) and is  *)
(* not strictly greater than the zIndex of any other overlapping           *)
(* same-class object that was strictly above that neighbor.                *)
(***************************************************************************)
C38_LeapfrogNearest ==
    [][\A id \in IdUniverse :
          (/\ HasId(items, id)
           /\ OverlappingAbove(items, Find(items, id)) # {}
           /\ handleMoveUp(id)) =>
             LET above == OverlappingAbove(items, Find(items, id))
                 nearest == SetMin({o.zIndex : o \in above})
                 after == Find(items', id).zIndex
             IN  /\ after > nearest
                 /\ \A o \in above : o.zIndex > nearest => ~(after > o.zIndex)]_vars

\* the target went over the nearer of two overlapping objects above it and
\* is still strictly below the farther one
C38_Witness ==
    /\ lastOp.op = "moveUp"
    /\ lastOp.branch = "leapfrog"
    /\ LET t == Find(items, lastOp.id)
       IN  /\ \E o \in Range(items) :
                o.id # t.id /\ SameClass(o, t) /\ BoxesIntersect(o, t)
                /\ o.zIndex < t.zIndex
           /\ \E o \in Range(items) :
                o.id # t.id /\ SameClass(o, t) /\ BoxesIntersect(o, t)
                /\ o.zIndex > t.zIndex

(***************************************************************************)
(* Specification SpecResize: the dock resizes a stored item whose x needs  *)
(* every bit a number has, next to one whose coordinates are small.        *)
(***************************************************************************)
ResizeSnapshot ==
    << StoredItem("1", "note", <<Pow2(Precision) - 1, 4600>>, 1),
       StoredItem("2", "note", <<4600, Pow2(Precision) - 101>>, 2) >>

InitResize == Mounted(ResizeSnapshot, FALSE)

NextResize ==
    \/ \E id \in IdUniverse, sz \in ResizeTargets : handleResize(id, sz[1], sz[2])
    \/ \E id \in IdUniverse : handleSelect(id)
    \/ handleCanvasClick
    \/ RenderPass

SpecResize == InitResize /\ [][NextResize]_vars

\* the object a resize has produced, resized back to the size it had
ResizedBack(id) ==
    ResizeItem(Find(items', id), Find(items, id).width, Find(items, id).height, now)

(***************************************************************************)
(* C39  Resize round trip, as stated: after handleResize(id, w2, h2) on an *)
(* existing object with geometry (x, y, w, h), a resize back to (w, h)     *)
(* restores the original x, y, width and height.                           *)
(***************************************************************************)
C39_ResizeRoundTrip ==
    [][\A id \in IdUniverse, sz \in ResizeTargets :
          (HasId(items, id) /\ handleResize(id, sz[1], sz[2])) =>
             LET a == Find(items, id)
                 c == ResizedBack(id)
             IN  /\ c.x = a.x /\ c.y = a.y
                 /\ c.width = a.width /\ c.height = a.height]_vars

\* the largest magnitude among the coordinates and the centres of a round
\* trip from one geometry over another
Largest(a, b) ==
    SetMax({ Abs(a.x) + a.width, Abs(a.y) + a.height,
             Abs(b.x) + b.width, Abs(b.y) + b.height })

(***************************************************************************)
(* C39  Resize round trip, amended: the resize back restores the width and *)
(* the height, and restores x and y to within the rounding of the four     *)
(* sums, at most two units in the last place of the largest coordinate or  *)
(* centre involved; x and y are restored exactly when no sum is rounded.   *)
(***************************************************************************)
C39_ResizeRoundTripRounded ==
    [][\A id \in IdUniverse, sz \in ResizeTargets :
          (HasId(items, id) /\ handleResize(id, sz[1], sz[2])) =>
             LET a == Find(items, id)
                 b == Find(items', id)
                 c == ResizedBack(id)
                 tolerance == 2 * Ulp(Largest(a, b))
             IN  /\ c.width = a.width /\ c.height = a.height
                 /\ Abs(c.x - a.x) <= tolerance
                 /\ Abs(c.y - a.y) <= tolerance
                 /\ Largest(a, b) < Pow2(Precision) => (c.x = a.x /\ c.y = a.y)]_vars

\* the item whose x had every bit set was resized: its centre was rounded,
\* and the way back would end one off
C39_Witness ==
    /\ lastOp.op = "resize"
    /\ lastOp.id = "1"
    /\ items[1].width = 300
    /\ items[1].x = Pow2(Precision) - 50
    /\ ResizeItem(items[1], 200, 200, now).x = Pow2(Precision)

(***************************************************************************)
(* The page's persistence: the save effect runs after every render in      *)
(* which the page's items changed and calls saveItems, which does nothing  *)
(* while isInitialLoadRef is set and otherwise restarts a 500 ms timer     *)
(* that writes the list to localStorage.  loadItems resets                 *)
(* isInitialLoadRef 100 ms after it has finished.                          *)
(***************************************************************************)
\* Date.prototype.toISOString
toISOString(date) == <<"ISO", date>>

\* serializeItems: the dates as ISO strings
serializeItems(itemsToSerialize) ==
    Map(itemsToSerialize, LAMBDA item :
        [item EXCEPT !.createdAt = toISOString(item.createdAt),
                     !.updatedAt = toISOString(item.updatedAt)])

\* what the rest of the state keeps while the page saves
pageFrame == <<hookVars, bridgeVars, renderPending, now, allocated, lastOp, emitted,
               viewVars, images, requests, pagePreviousItemsRef>>

\* saveItems(itemsToSave) on the refs p
saveItems(p, itemsToSave) ==
    IF p.isInitialLoadRef THEN p
    ELSE [p EXCEPT !.saveTimeoutRef = Value(itemsToSave)]

\* useEffect(..., [items, saveItems]): it runs after a render in which the
\* page's items changed
saveEffect ==
    /\ pageItems # persistence.effectItems
    /\ persistence' =
          IF ~persistence.isInitialLoadRef
          THEN saveItems([persistence EXCEPT !.effectItems = pageItems], pageItems)
          ELSE [persistence EXCEPT !.effectItems = pageItems]
    /\ UNCHANGED pageFrame

\* the setTimeout of loadItems, 100 ms after the load
initialLoadTimeout ==
    /\ persistence.initialLoadTimeout
    /\ persistence' = [persistence EXCEPT !.isInitialLoadRef = FALSE,
                                          !.initialLoadTimeout = FALSE]
    /\ UNCHANGED pageFrame

\* the setTimeout of saveItems, 500 ms after the last call
saveTimeout ==
    /\ persistence.saveTimeoutRef # NoValue
    /\ persistence' =
          [persistence EXCEPT !.written = Value(serializeItems(persistence.saveTimeoutRef[1])),
                              !.saveTimeoutRef = NoValue]
    /\ UNCHANGED pageFrame

(***************************************************************************)
(* Specification SpecPersist: the page has applied the list it loaded, and *)
(* the user adds up to MaxPersistItems items.  Renders, effects and timers *)
(* that are due run; the user may stop at any time.                        *)
(***************************************************************************)
MaxPersistItems == 3

PersistSnapshot == << StoredItem("1", "note", <<0, 0>>, 1) >>

InitPersist == Mounted(PersistSnapshot, FALSE)

NextPersist ==
    \/ \E t \in Types, pos \in BridgePosMenu :
          Len(items) < MaxPersistItems /\ addItem(Payload(t, pos))
    \/ RenderPass
    \/ saveEffect
    \/ initialLoadTimeout
    \/ saveTimeout

SpecPersist ==
    /\ InitPersist
    /\ [][NextPersist]_vars
    /\ WF_vars(RenderPass)
    /\ WF_vars(saveEffect)
    /\ WF_vars(initialLoadTimeout)
    /\ WF_vars(saveTimeout)

\* the list under the storage key: the one the page loaded, until the page
\* writes
StoredList ==
    IF persistence.written = NoValue THEN serializeItems(PersistSnapshot)
    ELSE persistence.written[1]

(***************************************************************************)
(* C40  Persistence liveness: the user changes the list a finite number of *)
(* times after the loaded items have been applied; once the changes have   *)
(* stopped, the stored list eventually equals the latest item list and     *)
(* stays equal to it, without a further change and without a page-hide or  *)
(* unload event.                                                           *)
(***************************************************************************)
C40_PersistenceLiveness == <>[](StoredList = serializeItems(pageItems))

====
